---- MODULE Spec2Model ----
(***************************************************************************)
(* A model of the rectangle packer of rectpack2d: the Packer facade        *)
(* (rectpack/packer.go), the Guillotine algorithm (rectpack/guillotine.go), *)
(* the row-by-row base algorithm (rectpack/algorithm.go) and the geometry   *)
(* helpers (rectpack/rect.go).                                              *)
(*                                                                         *)
(* Go's int is 64 bits wide; every number of the model stays far below     *)
(* 2^31, so no arithmetic of the model wraps and none of the code's does.  *)
(***************************************************************************)
EXTENDS Integers, Sequences, FiniteSets, TLC

(***************************************************************************)
(* Bounds of the model.                                                    *)
(***************************************************************************)
MaxRects == 2       \* sizes a Packer is handed in a run
MaxDim == 2         \* width and height of an inserted size: 1..MaxDim
MaxBin == 3         \* width and height of the bin: 1..MaxBin
MaxPad == 1         \* padding: 0..MaxPad

(***************************************************************************)
(* Program constants.                                                      *)
(***************************************************************************)
\* math.MaxInt, the "nothing fits" score. The code's value is 2^63-1; the
\* model's is the largest number TLC has. No score of the model reaches it.
MaxInt == 2147483647
MinInt == (-MaxInt) - 1
\* the side length at which Shrink stops doubling
ShrinkCap == 10000

\* F of the value of v.  The model passes every intermediate result of a
\* loop on as a value, the way the code holds it in a variable.
With(v, F(_)) == CHOOSE r \in {F(x) : x \in {v}} : TRUE

Max(a, b) == IF a >= b THEN a ELSE b
Min(a, b) == IF a <= b THEN a ELSE b

\* rect.go: abs
abs(x) == IF x >= 0 THEN x ELSE -x

(***************************************************************************)
(* Geometry (rect.go).  A Size2D is [Width, Height, ID]; a Rect2D adds X,  *)
(* Y, IsRotated and RotatedCount.                                          *)
(***************************************************************************)
NewSize2DByID(id, w, h) == [Width |-> w, Height |-> h, ID |-> id]

NewRect(x, y, w, h) ==
  [X |-> x, Y |-> y, Width |-> w, Height |-> h, ID |-> 0,
   IsRotated |-> FALSE, RotatedCount |-> 0]

Right(r) == r.X + r.Width
Bottom(r) == r.Y + r.Height
Area(r) == r.Width * r.Height

Intersects(r, rect) ==
  /\ rect.X < r.X + r.Width
  /\ r.X < rect.X + rect.Width
  /\ rect.Y < r.Y + r.Height
  /\ r.Y < rect.Y + rect.Height

\* padSize: grows a size by the padding on both axes
padSize(size, padding) ==
  IF padding <= 0 THEN size
  ELSE [size EXCEPT !.Width = @ + padding, !.Height = @ + padding]

\* a faulty unpadRect, which leaves the padded footprint's corner and the
\* size as they are: the padding property tells it from unpadRect
unpadRectKeepsRect(rect, padding) == rect

\* unpadRect: a rectangle at the left (top) edge moves in by the padding and
\* loses twice the padding, any other loses the padding once
unpadRect(rect, padding) ==
  IF padding <= 0 THEN rect
  ELSE LET rx == IF rect.X = 0
                 THEN [rect EXCEPT !.X = @ + padding, !.Width = @ - padding * 2]
                 ELSE [rect EXCEPT !.Width = @ - padding]
       IN IF rx.Y = 0
          THEN [rx EXCEPT !.Y = @ + padding, !.Height = @ - padding * 2]
          ELSE [rx EXCEPT !.Height = @ - padding]

\* a faulty Delete, which drops the first element whatever i is: the partition
\* property of Pack tells it from Delete
DeleteFirst(s, i) == Tail(s)

\* slices.Delete(s, i, i+1), 1-based
Delete(s, i) == [k \in 1..(Len(s) - 1) |-> IF k < i THEN s[k] ELSE s[k + 1]]

(***************************************************************************)
(* Guillotine scoring (guillotine.go).                                     *)
(***************************************************************************)
scoreBestArea(width, height, freeRect) ==
  freeRect.Width * freeRect.Height - width * height

scoreBestShort(width, height, freeRect) ==
  Min(abs(freeRect.Width - width), abs(freeRect.Height - height))

scoreBestLong(width, height, freeRect) ==
  Max(abs(freeRect.Width - width), abs(freeRect.Height - height))

\* newGuillotine's switch on heuristic & fitMask
scoreRect(fit, width, height, freeRect) ==
  CASE fit = "BestShortSideFit" -> scoreBestShort(width, height, freeRect)
    [] fit = "BestLongSideFit" -> scoreBestLong(width, height, freeRect)
    [] fit = "WorstAreaFit" -> -scoreBestArea(width, height, freeRect)
    [] fit = "WorstShortSideFit" -> -scoreBestShort(width, height, freeRect)
    [] fit = "WorstLongSideFit" -> -scoreBestLong(width, height, freeRect)
    [] OTHER -> scoreBestArea(width, height, freeRect)

(***************************************************************************)
(* The algorithm object p (algorithmBase, embedded in guillotinePack) is a *)
(* record: type, fit, splitMethod, Merge, allowRotate, maxWidth,           *)
(* maxHeight, usedArea, packed, freeRects, idMaptoRotateCount.             *)
(***************************************************************************)

\* a faulty splitAlongAxis, whose children both run the whole length of the
\* free rectangle and so share the corner opposite the placed rectangle: the
\* free-list invariant tells it from splitAlongAxis
splitAlongAxisBothLong(freeRects, freeRect, placedRect, splitHorizontal) ==
  LET bottom == NewRect(freeRect.X, freeRect.Y + placedRect.Height,
                        freeRect.Width, freeRect.Height - placedRect.Height)
      right == NewRect(freeRect.X + placedRect.Width, freeRect.Y,
                       freeRect.Width - placedRect.Width, freeRect.Height)
      withBottom == IF bottom.Width > 0 /\ bottom.Height > 0
                    THEN Append(freeRects, bottom) ELSE freeRects
  IN IF right.Width > 0 /\ right.Height > 0
     THEN Append(withBottom, right) ELSE withBottom

\* splitAlongAxis: the free rectangle below and the one to the right of the
\* placed rectangle; a child is kept when both its sides are positive
splitAlongAxis(freeRects, freeRect, placedRect, splitHorizontal) ==
  LET bottom == NewRect(freeRect.X, freeRect.Y + placedRect.Height,
                        IF splitHorizontal THEN freeRect.Width ELSE placedRect.Width,
                        freeRect.Height - placedRect.Height)
      right == NewRect(freeRect.X + placedRect.Width, freeRect.Y,
                       freeRect.Width - placedRect.Width,
                       IF splitHorizontal THEN placedRect.Height ELSE freeRect.Height)
      withBottom == IF bottom.Width > 0 /\ bottom.Height > 0
                    THEN Append(freeRects, bottom) ELSE freeRects
  IN IF right.Width > 0 /\ right.Height > 0
     THEN Append(withBottom, right) ELSE withBottom

\* splitByHeuristic: the direction of the cut
splitHorizontalOf(splitMethod, freeRect, placedRect) ==
  LET w == freeRect.Width - placedRect.Width
      h == freeRect.Height - placedRect.Height
  IN CASE splitMethod = "SplitShorterLeftoverAxis" -> w <= h
       [] splitMethod = "SplitLongerLeftoverAxis" -> w > h
       [] splitMethod = "SplitMinimizeArea" -> placedRect.Width * h > w * placedRect.Height
       [] splitMethod = "SplitMaximizeArea" -> placedRect.Width * h <= w * placedRect.Height
       [] splitMethod = "SplitShorterAxis" -> freeRect.Width <= freeRect.Height
       [] splitMethod = "SplitLongerAxis" -> freeRect.Width > freeRect.Height
       [] OTHER -> TRUE

splitByHeuristic(splitMethod, freeRects, freeRect, placedRect) ==
  splitAlongAxis(freeRects, freeRect, placedRect,
                 splitHorizontalOf(splitMethod, freeRect, placedRect))

\* mergeFreeList, as written: every comparison of the pass reads freeRects[i]
\* on both sides, so the outer test is always true and an inner test is true
\* exactly when freeRects[i].Height = 0; then freeRects[j] is deleted and
\* freeRects[i] keeps its (zero) height.  m is [freeRects, j]: one turn of the
\* inner loop for the pair (i, j).
mergePair(m, i) ==
  LET fi == m.freeRects[i]
      j == m.j
      skip == [m EXCEPT !.j = j + 1]
  IN IF fi.Width = fi.Width /\ fi.X = fi.X
     THEN IF fi.Y = fi.Y + fi.Height
          THEN [m EXCEPT !.freeRects = Delete([@ EXCEPT ![i].Y = @ - fi.Height,
                                                        ![i].Height = @ + fi.Height], j)]
          ELSE IF fi.Y + fi.Height = fi.Y
          THEN [m EXCEPT !.freeRects = Delete([@ EXCEPT ![i].Height = @ + fi.Height], j)]
          ELSE skip
     ELSE IF fi.Height = fi.Height /\ fi.Y = fi.Y
     THEN IF fi.X = fi.X + fi.Width
          THEN [m EXCEPT !.freeRects = Delete([@ EXCEPT ![i].X = @ - fi.Width,
                                                        ![i].Width = @ + fi.Width], j)]
          ELSE IF fi.X + fi.Width = fi.X
          THEN [m EXCEPT !.freeRects = Delete([@ EXCEPT ![i].Width = @ + fi.Width], j)]
          ELSE skip
     ELSE skip

RECURSIVE mergeFrom(_, _)
mergeFrom(m, i) ==
  LET nextI(n) == mergeFrom(n, i + 1)
      sameI(n) == mergeFrom(n, i)
  IN IF i > Len(m.freeRects) THEN m.freeRects
     ELSE IF m.j > Len(m.freeRects) THEN With([m EXCEPT !.j = i + 2], nextI)
     ELSE With(mergePair(m, i), sameI)

mergeFreeList(freeRects) ==
  LET from1(m) == mergeFrom(m, 1)
  IN With([freeRects |-> freeRects, j |-> 2], from1)

(***************************************************************************)
(* guillotinePack.Insert: the search for the best (free rectangle, size)   *)
(* pair.  best is [fr, r, flipped, score].  The assignment i =             *)
(* len(p.freeRects) in the two exact-match branches does not stop Go's     *)
(* range loop over the free rectangles: only the loop over the sizes is    *)
(* left, and the scan goes on with the next free rectangle.                *)
(***************************************************************************)
NoBest == [fr |-> 0, r |-> 0, flipped |-> FALSE, score |-> MaxInt]

\* the if / else-if chain for one size against one free rectangle
\* (guillotine.go:57-88); brk says the inner loop is left
tryFit(p, padding, freeRect, i, j, size0, best) ==
  LET size == padSize(size0, padding)
  IN IF size.Width = freeRect.Width /\ size.Height = freeRect.Height
     THEN [best |-> [fr |-> i, r |-> j, flipped |-> FALSE, score |-> MinInt],
           brk |-> TRUE]
     ELSE IF p.allowRotate /\ size.Height = freeRect.Width /\ size.Width = freeRect.Height
     THEN [best |-> [fr |-> i, r |-> j, flipped |-> TRUE, score |-> MinInt],
           brk |-> TRUE]
     ELSE IF size.Width <= freeRect.Width /\ size.Height <= freeRect.Height
     THEN LET score == scoreRect(p.fit, size.Width, size.Height, freeRect)
          IN [best |-> IF score < best.score
                       THEN [fr |-> i, r |-> j, flipped |-> FALSE, score |-> score]
                       ELSE best,
              brk |-> FALSE]
     ELSE IF p.allowRotate /\ size.Height <= freeRect.Width /\ size.Width <= freeRect.Height
     THEN LET score == scoreRect(p.fit, size.Height, size.Width, freeRect)
          IN [best |-> IF score < best.score
                       THEN [fr |-> i, r |-> j, flipped |-> TRUE, score |-> score]
                       ELSE best,
              brk |-> FALSE]
     ELSE [best |-> best, brk |-> FALSE]

RECURSIVE scanSizes(_, _, _, _, _, _)
scanSizes(p, padding, sizes, i, j, best) ==
  LET goOn(t) == IF t.brk THEN t.best
                 ELSE scanSizes(p, padding, sizes, i, j + 1, t.best)
  IN IF j > Len(sizes) THEN best
     ELSE With(tryFit(p, padding, p.freeRects[i], i, j, sizes[j], best), goOn)

\* a faulty scan, which looks at one free rectangle only: the property that
\* Insert gives up only when nothing fits tells it from scanFreeRects
scanOneFreeRect(p, padding, sizes, i, best) ==
  IF i > Len(p.freeRects) THEN best ELSE scanSizes(p, padding, sizes, i, 1, best)

RECURSIVE scanFreeRects(_, _, _, _, _)
scanFreeRects(p, padding, sizes, i, best) ==
  LET goOn(b) == scanFreeRects(p, padding, sizes, i + 1, b)
  IN IF i > Len(p.freeRects) THEN best
     ELSE With(scanSizes(p, padding, sizes, i, 1, best), goOn)

\* the node built from the chosen free rectangle and size (guillotine.go:94-109)
newNodeOf(freeRect, size, bestFlipped) ==
  IF bestFlipped
  THEN [X |-> freeRect.X, Y |-> freeRect.Y, Width |-> size.Height,
        Height |-> size.Width, ID |-> size.ID,
        IsRotated |-> TRUE, RotatedCount |-> 1]
  ELSE [X |-> freeRect.X, Y |-> freeRect.Y, Width |-> size.Width,
        Height |-> size.Height, ID |-> size.ID,
        IsRotated |-> FALSE, RotatedCount |-> 0]

\* one placement (guillotine.go:94-119)
place(p, padding, sizes, best) ==
  LET freeRect == p.freeRects[best.fr]
      newNode == newNodeOf(freeRect, sizes[best.r], best.flipped)
      freeList(deleted) == IF p.Merge THEN mergeFreeList(deleted) ELSE deleted
      merged == With(Delete(splitByHeuristic(p.splitMethod, p.freeRects, freeRect,
                                             newNode),
                            best.fr),
                     freeList)
      stored == unpadRect(newNode, padding)
  IN [p EXCEPT !.freeRects = merged,
               !.usedArea = @ + Area(newNode),
               !.idMaptoRotateCount[stored.ID] = @ + stored.RotatedCount,
               !.packed = Append(@, stored)]

\* guillotinePack.Insert: [p: the algorithm afterwards, left: the sizes not placed]
RECURSIVE guillotineInsert(_, _, _)
guillotineInsert(p, padding, sizes) ==
  LET goOn(n) == guillotineInsert(n.p, padding, n.sizes)
      placeBest(best) ==
        IF best.score = MaxInt THEN [p |-> p, left |-> sizes]
        ELSE With([p |-> place(p, padding, sizes, best),
                   sizes |-> Delete(sizes, best.r)], goOn)
  IN IF Len(sizes) = 0 THEN [p |-> p, left |-> sizes]
     ELSE With(scanFreeRects(p, padding, sizes, 1, NoBest), placeBest)

(***************************************************************************)
(* algorithmBase (algorithm.go): the algorithm NewPacker builds for a      *)
(* heuristic whose type bits name neither MaxRects nor Guillotine.         *)
(***************************************************************************)
\* a faulty Reset, which keeps the packed list: the property of a successful
\* Shrink tells it from algorithmBase.Reset
baseResetKeepsPacked(p, width, height) ==
  [p EXCEPT !.maxWidth = width, !.maxHeight = height, !.usedArea = 0]

\* algorithmBase.Reset
baseReset(p, width, height) ==
  [p EXCEPT !.maxWidth = width, !.maxHeight = height,
            !.usedArea = 0, !.packed = <<>>]

\* guillotinePack.Reset
guillotineReset(p, width, height) ==
  [baseReset(p, width, height) EXCEPT !.freeRects = <<NewRect(0, 0, width, height)>>]

\* one turn of the loop of algorithmBase.Insert; c is [p, x, y, rowHeight, unpacked]
baseStep(c, padding, size) ==
  LET wrap == c.x + size.Width + padding > c.p.maxWidth
      x == IF wrap THEN 0 ELSE c.x
      y == IF wrap THEN c.y + c.rowHeight + padding ELSE c.y
      rowHeight == IF wrap THEN 0 ELSE c.rowHeight
  IN IF y + size.Height + padding > c.p.maxHeight
     THEN [c EXCEPT !.x = x, !.y = y, !.rowHeight = rowHeight,
                    !.unpacked = Append(@, size)]
     ELSE [p |-> [c.p EXCEPT
                    !.packed = Append(@, [NewRect(x, y, size.Width, size.Height)
                                            EXCEPT !.ID = size.ID]),
                    !.usedArea = @ + size.Width * size.Height],
           x |-> x + size.Width + padding,
           y |-> y,
           rowHeight |-> Max(rowHeight, size.Height),
           unpacked |-> c.unpacked]

RECURSIVE baseLoop(_, _, _, _)
baseLoop(c, padding, sizes, k) ==
  LET goOn(n) == baseLoop(n, padding, sizes, k + 1)
  IN IF k > Len(sizes) THEN c
     ELSE With(baseStep(c, padding, sizes[k]), goOn)

\* algorithmBase.Insert: [p: the algorithm afterwards, left: the sizes not placed]
baseInsert(p, padding, sizes) ==
  LET result(c) == [p |-> c.p, left |-> c.unpacked]
  IN With(baseLoop([p |-> p, x |-> 0, y |-> 0, rowHeight |-> 0, unpacked |-> <<>>],
                   padding, sizes, 1),
          result)

\* packAlgorithm.Insert and packAlgorithm.Reset, dispatched on the algorithm
algoInsert(p, padding, sizes) ==
  IF p.type = "Guillotine" THEN guillotineInsert(p, padding, sizes)
  ELSE baseInsert(p, padding, sizes)

algoReset(p, width, height) ==
  IF p.type = "Guillotine" THEN guillotineReset(p, width, height)
  ELSE baseReset(p, width, height)

(***************************************************************************)
(* Sorting (guillotine.go: SortArea; packer.go: Pack).  slices.SortFunc    *)
(* sorts a slice of fewer than 12 elements by insertion, which the model   *)
(* does too.                                                               *)
(***************************************************************************)
\* cmp.Compare(b.Area(), a.Area())
SortArea(a, b) ==
  IF Area(b) < Area(a) THEN -1 ELSE IF Area(b) > Area(a) THEN 1 ELSE 0

\* the comparator SortFunc is given: p.sortFunc, or p.sortFunc with its
\* arguments swapped when sortRev is set (packer.go:145-151)
less(rev, a, b) == IF rev THEN SortArea(b, a) < 0 ELSE SortArea(a, b) < 0

\* s with its element k moved left while it compares less than its left neighbour
RECURSIVE sinkLeft(_, _, _)
sinkLeft(rev, s, k) ==
  LET goOn(n) == sinkLeft(rev, n, k - 1)
  IN IF k > 1 /\ less(rev, s[k], s[k - 1])
     THEN With([s EXCEPT ![k - 1] = s[k], ![k] = s[k - 1]], goOn)
     ELSE s

RECURSIVE insertionSort(_, _, _)
insertionSort(rev, s, k) ==
  LET goOn(n) == insertionSort(rev, n, k + 1)
  IN IF k > Len(s) THEN s ELSE With(sinkLeft(rev, s, k), goOn)

Reverse(s) == [k \in 1..Len(s) |-> s[Len(s) + 1 - k]]

\* slices.SortFunc of the standard library, which Pack calls (packer.go:146,
\* 150), sorts a slice of at most maxInsertion elements by insertion and a
\* longer one by pattern-defeating quicksort; its documentation does not
\* promise a stable sort.
maxInsertion == 12

\* the longest queue the model of slices.SortFunc covers: one pivot, one
\* partition, and both sides short enough for the insertion sort
LongQueue == maxInsertion + 1

swap(s, i, j) == [s EXCEPT ![i] = s[j], ![j] = s[i]]

\* median of s[x], s[y], s[z] by three order2 steps, counting the swaps
medianCmpFunc(rev, s, x, y, z) ==
  LET order2(t) == IF less(rev, s[t[2]], s[t[1]]) THEN <<t[2], t[1], t[3] + 1>> ELSE t
      ab == order2(<<x, y, 0>>)
      bc == order2(<<ab[2], z, ab[3]>>)
      fin == order2(<<ab[1], bc[1], bc[3]>>)
  IN [pivot |-> fin[2], swaps |-> fin[3]]

\* choosePivotCmpFunc for a slice of 8 to 49 elements: the median of the
\* elements at one, two and three quarters; no swap hints at a sorted slice
choosePivotCmpFunc(rev, s) ==
  LET q == Len(s) \div 4
      m == medianCmpFunc(rev, s, 1 + q, 1 + 2 * q, 1 + 3 * q)
  IN [pivot |-> m.pivot, hint |-> IF m.swaps = 0 THEN "increasing" ELSE "unknown"]

\* partialInsertionSortCmpFunc for a slice of fewer than 50 elements: true,
\* with nothing moved, exactly when no element is less than its left neighbour
partialInsertionSortCmpFunc(rev, s) ==
  \A i \in 2..Len(s) : ~less(rev, s[i], s[i - 1])

RECURSIVE scanUp(_, _, _, _)
scanUp(rev, s, i, j) ==
  IF i <= j /\ less(rev, s[i], s[1]) THEN scanUp(rev, s, i + 1, j) ELSE i

RECURSIVE scanDown(_, _, _, _)
scanDown(rev, s, i, j) ==
  IF i <= j /\ ~less(rev, s[j], s[1]) THEN scanDown(rev, s, i, j - 1) ELSE j

\* the loop of partitionCmpFunc, the pivot at the first place: i runs up over
\* the elements less than the pivot, j runs down over the others, the pair
\* they stop at is swapped; at the end the pivot goes to place j
RECURSIVE partitionLoop(_, _, _, _)
partitionLoop(rev, s, i, j) ==
  LET i1 == scanUp(rev, s, i, j)
      j1 == scanDown(rev, s, i1, j)
  IN IF i1 > j1 THEN [data |-> swap(s, j1, 1), mid |-> j1]
     ELSE partitionLoop(rev, swap(s, i1, j1), i1 + 1, j1 - 1)

partitionCmpFunc(rev, s, pivot) == partitionLoop(rev, swap(s, 1, pivot), 2, Len(s))

\* pdqsortCmpFunc for a slice of at most LongQueue elements
pdqsortCmpFunc(rev, s) ==
  IF Len(s) <= maxInsertion THEN insertionSort(rev, s, 2)
  ELSE LET c == choosePivotCmpFunc(rev, s)
           p == partitionCmpFunc(rev, s, c.pivot)
       IN IF c.hint = "increasing" /\ partialInsertionSortCmpFunc(rev, s) THEN s
          ELSE insertionSort(rev, SubSeq(p.data, 1, p.mid - 1), 2)
                 \o <<p.data[p.mid]>>
                 \o insertionSort(rev, SubSeq(p.data, p.mid + 1, Len(s)), 2)

\* the order Pack hands the queue to the algorithm in (packer.go:144-154)
sortQueue(sortFn, rev, s) ==
  IF sortFn # "nil" THEN pdqsortCmpFunc(rev, s)
  ELSE IF rev THEN Reverse(s) ELSE s

\* Packer.MinSize (packer.go:29-36): the largest Right()+padding and
\* Bottom()+padding over the packed rectangles, from the zero Size2D
RECURSIVE minSizeFrom(_, _, _, _)
minSizeFrom(rects, padding, k, size) ==
  IF k > Len(rects) THEN size
  ELSE minSizeFrom(rects, padding, k + 1,
                   [size EXCEPT !.Width = Max(@, Right(rects[k]) + padding),
                                !.Height = Max(@, Bottom(rects[k]) + padding)])

MinSize(rects, padding) == minSizeFrom(rects, padding, 1, [Width |-> 0, Height |-> 0, ID |-> 0])

(***************************************************************************)
(* Packer.Shrink (packer.go:173-305).                                      *)
(***************************************************************************)
\* int(math.Sqrt(float64(n))) for n >= 0
RECURSIVE sqrtBetween(_, _, _)
sqrtBetween(n, lo, hi) ==
  IF lo >= hi THEN lo
  ELSE LET mid == (lo + hi + 1) \div 2
       IN IF mid * mid <= n THEN sqrtBetween(n, mid, hi)
          ELSE sqrtBetween(n, lo, mid - 1)

intSqrt(n) == sqrtBetween(n, 0, Min(n, 46340))

RECURSIVE maxOver(_, _, _)
maxOver(rects, k, field) ==
  IF k > Len(rects) THEN 0
  ELSE Max(IF field = "Width" THEN rects[k].Width ELSE rects[k].Height,
           maxOver(rects, k + 1, field))

\* int(math.Sqrt(float64(int(float64(totalArea) * 1.2)))), then at least the
\* largest width and height (packer.go:193-211).  For the integers of the
\* model float64(totalArea)*1.2 truncates to (totalArea*6) div 5: the product
\* is rounded to the integer when 5 divides totalArea and is at least 0.2
\* away from one otherwise.
initialSizeOf(totalArea, rects, padding) ==
  LET pad2 == IF padding > 0 THEN padding * 2 ELSE 0
      maxWidth == maxOver(rects, 1, "Width") + pad2
      maxHeight == maxOver(rects, 1, "Height") + pad2
      estimatedSize == (totalArea * 6) \div 5
  IN Max(Max(intSqrt(estimatedSize), maxWidth), maxHeight)

\* the sizes Shrink re-inserts: rect.Size2D of every packed rectangle
sizesOf(rects) ==
  [k \in 1..Len(rects) |->
     NewSize2DByID(rects[k].ID, rects[k].Width, rects[k].Height)]

\* Reset to width x height and Insert the sizes: [p, left]
trial(p, padding, sizes, width, height) ==
  LET insert(q) == algoInsert(q, padding, sizes)
  IN With(algoReset(p, width, height), insert)

(***************************************************************************)
(* The search of Shrink, loop by loop.  s is the function's local state:   *)
(* at (which loop it is in), p (the algorithm), minSize, maxSize,          *)
(* bestSize, optimalWidth, optimalHeight, h and w (the counters of the two *)
(* descents), ok (what Shrink returns) and resets (history: the loop,     *)
(* width and height of every Reset made so far).                           *)
(***************************************************************************)
\* whether the loop s is in makes one more Reset and Insert
shrinkGoesOn(s) ==
  CASE s.at = "first" -> TRUE                                 \* packer.go:223-225
    [] s.at = "double" -> s.maxSize < ShrinkCap               \* packer.go:234
    [] s.at = "search" -> s.minSize < s.maxSize - 1           \* packer.go:248
    [] s.at = "height" -> s.h >= s.bestSize \div 2            \* packer.go:266
    [] s.at = "width" -> s.w >= s.bestSize \div 2             \* packer.go:279
    [] s.at = "last" -> TRUE                                  \* packer.go:291-293
    [] s.at = "restore" -> TRUE                               \* packer.go:242, 301
    [] OTHER -> FALSE

\* the width and height of that Reset
shrinkSide(s, orig) ==
  CASE s.at = "first" -> <<s.minSize, s.minSize>>
    [] s.at = "double" -> <<s.maxSize * 2, s.maxSize * 2>>
    [] s.at = "search" -> <<(s.minSize + s.maxSize) \div 2, (s.minSize + s.maxSize) \div 2>>
    [] s.at = "height" -> <<s.optimalWidth, s.h>>
    [] s.at = "width" -> <<s.w, s.optimalHeight>>
    [] s.at = "last" -> <<s.optimalWidth, s.optimalHeight>>
    [] OTHER -> <<orig.maxWidth, orig.maxHeight>>

\* the local state after that Reset and Insert, which left p and was
\* successful or not
shrinkAfter(s, side, p, successful) ==
  CASE s.at = "first" ->
         IF successful THEN [s EXCEPT !.p = p, !.at = "done", !.ok = TRUE]
         ELSE [s EXCEPT !.p = p, !.at = "double"]
    [] s.at = "double" ->
         IF successful
         THEN [s EXCEPT !.p = p, !.maxSize = side[1], !.bestSize = side[1],
                        !.at = "search"]
         ELSE [s EXCEPT !.p = p, !.maxSize = side[1]]
    [] s.at = "search" ->
         IF successful THEN [s EXCEPT !.p = p, !.maxSize = side[1], !.bestSize = side[1]]
         ELSE [s EXCEPT !.p = p, !.minSize = side[1]]
    [] s.at = "height" ->
         IF successful THEN [s EXCEPT !.p = p, !.optimalHeight = s.h, !.h = s.h - 1]
         ELSE [s EXCEPT !.p = p, !.at = "width", !.w = s.bestSize - 1]
    [] s.at = "width" ->
         IF successful THEN [s EXCEPT !.p = p, !.optimalWidth = s.w, !.w = s.w - 1]
         ELSE [s EXCEPT !.p = p, !.at = "last"]
    [] s.at = "last" ->
         IF successful THEN [s EXCEPT !.p = p, !.at = "done", !.ok = TRUE]
         ELSE [s EXCEPT !.p = p, !.at = "restore"]
    [] OTHER -> [s EXCEPT !.p = p, !.at = "done", !.ok = FALSE]

\* the local state when the loop s is in ends by its condition
shrinkLeaves(s) ==
  CASE s.at = "double" -> [s EXCEPT !.at = "restore"]         \* packer.go:240
    [] s.at = "search" ->                                     \* packer.go:262-266
         [s EXCEPT !.at = "height", !.optimalWidth = s.bestSize,
                   !.optimalHeight = s.bestSize, !.h = s.bestSize - 1]
    [] s.at = "height" -> [s EXCEPT !.at = "width", !.w = s.bestSize - 1]
    [] s.at = "width" -> [s EXCEPT !.at = "last"]
    [] OTHER -> [s EXCEPT !.at = "done"]

RECURSIVE shrinkLoop(_, _, _, _)
shrinkLoop(s, padding, sizes, orig) ==
  LET goOn(n) == shrinkLoop(n, padding, sizes, orig)
      side == shrinkSide(s, orig)
      after(t) ==
        [shrinkAfter(s, side, t.p, Len(t.left) = 0)
           EXCEPT !.resets = s.resets \cup {[at |-> s.at, width |-> side[1],
                                             height |-> side[2]]}]
  IN IF s.at = "done" THEN s
     ELSE IF ~shrinkGoesOn(s) THEN With(shrinkLeaves(s), goOn)
     ELSE With(With(trial(s.p, padding, sizes, side[1], side[2]), after), goOn)

\* packer.go:178-305, entered with an empty queue: [p, ok]
shrinkSearch(p, padding) ==
  LET totalArea == p.usedArea
      rects == p.packed
      result(s) == [p |-> s.p, ok |-> s.ok, resets |-> s.resets]
      search(sizes) ==
        LET from(initialSize) ==
              shrinkLoop([at |-> "first", p |-> p, ok |-> FALSE,
                          minSize |-> initialSize, maxSize |-> initialSize * 2,
                          bestSize |-> 0, optimalWidth |-> 0, optimalHeight |-> 0,
                          h |-> 0, w |-> 0, resets |-> {}],
                         padding, sizes,
                         [maxWidth |-> p.maxWidth, maxHeight |-> p.maxHeight])
        IN With(With(initialSizeOf(totalArea, rects, padding), from), result)
  IN IF totalArea = 0 \/ Len(rects) = 0 THEN [p |-> p, ok |-> FALSE, resets |-> {}]
     ELSE With(sizesOf(rects), search)

(***************************************************************************)
(* The Packer (packer.go:11-18), the command line's options and list of    *)
(* packers (main.go), and what the properties need to remember.            *)
(***************************************************************************)
VARIABLES
  unpackedSize2Ds,  \* Packer.unpackedSize2Ds: the queue of sizes
  algo,             \* Packer.algo: the algorithm object
  sortFunc,         \* Packer.sortFunc: "SortArea" or "nil"
  sortRev,          \* Packer.sortRev
  padding,          \* Packer.padding
  options,          \* main.go: options, the fields packing() reads
  pakers,           \* main.go: pakers, the packed rectangles of each packer
  pc,               \* main.go: where main is; "api" when the Packer is driven directly
  inserted,         \* history: the sizes handed to Insert, by ID
  lastOp,           \* history: the last operation called
  ret,              \* history: what the last Pack or Shrink returned
  before,           \* history: queue, packed rectangles and bin before the last operation
  filledBy,         \* history: what packed since the last Reset: "none", "Pack" (one
                    \* call), "Packs" (more calls than one) or "Shrink" (Shrink has
                    \* packed anew, whatever Pack did before or after)
  shrunk            \* history: Shrink has been called

\* The other parts of the program, each at rest while the Packer or main runs
VARIABLES
  resolver,         \* a call of ResolveAlgorithm followed by NewPacker
  files,            \* the sprite files of the input directory, by ID
  job,              \* a parallel driver's call: which driver, the number of CPUs,
                    \* the step each task fails at, options.IsTrimTransparent
  drv,              \* the driver's goroutine: position, loop index, semaphore,
                    \* wait group, error channel and what it returned
  wk,               \* the goroutines the driver started: position and tasks
  mem,              \* what the goroutines share: the mutex, the results they
                    \* write, and (history) the points of the raster each task
                    \* wrote, the tasks that ran and the errors they sent
  sky,              \* skyline.go: a SkyLinePacking and the locals of its Pack
  ins               \* a call of guillotinePack.Insert in its loop: the sizes it
                    \* still holds, what it returned, and (history) the
                    \* footprints placed since Reset and the last cut

packerVars == <<unpackedSize2Ds, algo, sortFunc, sortRev, padding, options, pakers, pc,
                inserted, lastOp, ret, before, filledBy, shrunk>>

driverVars == <<files, job, drv, wk, mem>>

otherVars == <<resolver, driverVars, sky, ins>>

vars == <<packerVars, otherVars>>

DriversIdle ==
  /\ files = <<>>
  /\ job = "idle"
  /\ drv = "idle"
  /\ wk = <<>>
  /\ mem = "idle"

OtherIdle ==
  /\ resolver = "idle"
  /\ DriversIdle
  /\ sky = "idle"
  /\ ins = "idle"

mainVars == <<options, pakers, pc>>

IDs == 1..MaxRects
Dims == 1..MaxDim
BinDims == 1..MaxBin
Paddings == 0..MaxPad

\* The heuristics of the model: the six Guillotine combinations the package
\* names (their split bits are 0, SplitShorterLeftoverAxis), one with other
\* split bits, and the value 99 ResolveAlgorithm returns for an unknown pair,
\* whose type bits (3) select the default branch of NewPacker.
Heuristics ==
  {[type |-> "Guillotine", fit |-> f, split |-> "SplitShorterLeftoverAxis"] :
     f \in {"BestAreaFit", "BestShortSideFit", "BestLongSideFit",
            "WorstAreaFit", "WorstShortSideFit", "WorstLongSideFit"}}
  \cup {[type |-> "Guillotine", fit |-> "BestAreaFit", split |-> "SplitMinimizeArea"],
        [type |-> "Base", fit |-> "none", split |-> "none"]}

\* NewPacker(maxWidth, maxHeight, heuristic) (packer.go:332-352), newGuillotine
\* (guillotine.go:18-41)
NewAlgo(maxWidth, maxHeight, heuristic) ==
  LET p == [type |-> heuristic.type, fit |-> heuristic.fit,
            splitMethod |-> heuristic.split, Merge |-> TRUE, allowRotate |-> FALSE,
            maxWidth |-> maxWidth, maxHeight |-> maxHeight, usedArea |-> 0,
            packed |-> <<>>, freeRects |-> <<>>,
            idMaptoRotateCount |-> [id \in IDs |-> 0]]
  IN IF heuristic.type = "Guillotine" THEN guillotineReset(p, maxWidth, maxHeight)
     ELSE p

\* the sorter NewPacker gives the Packer (packer.go:336-338, 348)
sorterOf(heuristic) == IF heuristic.type = "Guillotine" THEN "SortArea" ELSE "nil"

\* the algorithm of the Packer packing() builds from the options
\* (main.go:169-175)
optionsAlgo(opts) ==
  [NewAlgo(opts.AtlasMaxWidth, opts.AtlasMaxHeight, opts.Algorithm)
     EXCEPT !.allowRotate = opts.IsAllowRotate]

\* what the history keeps of the state an operation starts in; handed is the
\* order Pack gives the sizes to the algorithm in and resets the Resets Shrink
\* makes, both empty for the other operations
Snapshot ==
  [queue |-> unpackedSize2Ds, packed |-> algo.packed,
   maxWidth |-> algo.maxWidth, maxHeight |-> algo.maxHeight, handed |-> <<>>,
   resets |-> {}]

\* the options of a run: bin, heuristic, rotation, padding, automatic shrinking
OptionsOf(bins, paddings, autoSizes) ==
  [AtlasMaxWidth : bins, AtlasMaxHeight : bins, Algorithm : Heuristics,
   IsAllowRotate : BOOLEAN, SpritePadding : paddings, IsAutoSize : autoSizes]

\* A Packer as packing() of main.go sets it up: NewPacker, AllowRotate, SetPadding
InitWith(bins, paddings, autoSizes, at) ==
  /\ options \in OptionsOf(bins, paddings, autoSizes)
  /\ algo = optionsAlgo(options)
  /\ sortFunc = sorterOf(options.Algorithm)
  /\ sortRev = FALSE
  /\ padding = options.SpritePadding
  /\ pakers = <<>>
  /\ pc = at
  /\ unpackedSize2Ds = <<>>
  /\ inserted = <<>>
  /\ lastOp = "NewPacker"
  /\ ret = FALSE
  /\ before = [queue |-> <<>>, packed |-> <<>>, maxWidth |-> 0, maxHeight |-> 0,
              handed |-> <<>>, resets |-> {}]
  /\ filledBy = "none"
  /\ shrunk = FALSE
  /\ OtherIdle

Init == InitWith(BinDims, Paddings, {FALSE}, "api")

\* Packer.Insert, offline (packer.go:40-50): the size joins the queue.  The
\* caller gives every size an ID of its own.
Insert(width, height) ==
  /\ Len(inserted) < MaxRects
  /\ LET size == NewSize2DByID(Len(inserted) + 1, width, height)
     IN /\ unpackedSize2Ds' = Append(unpackedSize2Ds, size)
        /\ inserted' = Append(inserted, size)
  /\ lastOp' = "Insert"
  /\ before' = Snapshot
  /\ UNCHANGED <<algo, sortFunc, sortRev, padding, ret, filledBy, shrunk>>
  /\ UNCHANGED mainVars
  /\ UNCHANGED otherVars

\* Packer.Pack (packer.go:140-163)
Pack ==
  /\ lastOp' = "Pack"
  /\ IF Len(unpackedSize2Ds) = 0
     THEN /\ ret' = TRUE
          /\ before' = Snapshot
          /\ UNCHANGED <<unpackedSize2Ds, algo, filledBy>>
     ELSE \E sorted \in {sortQueue(sortFunc, sortRev, unpackedSize2Ds)} :
          \E r \in {algoInsert(algo, padding, sorted)} :
             /\ before' = [Snapshot EXCEPT !.handed = sorted]
             /\ algo' = r.p
             /\ unpackedSize2Ds' = r.left
             /\ ret' = (Len(r.left) = 0)
             /\ filledBy' = CASE filledBy = "none" -> "Pack"
                               [] filledBy = "Shrink" -> "Shrink"
                               [] OTHER -> "Packs"
  /\ UNCHANGED <<sortFunc, sortRev, padding, inserted, shrunk>>
  /\ UNCHANGED mainVars
  /\ UNCHANGED otherVars

\* Packer.Shrink (packer.go:173-305); packing() of main.go calls it once
Shrink ==
  /\ ~shrunk
  /\ shrunk' = TRUE
  /\ lastOp' = "Shrink"
  /\ IF Len(unpackedSize2Ds) # 0
     THEN /\ ret' = FALSE
          /\ before' = Snapshot
          /\ UNCHANGED <<algo, filledBy>>
     ELSE \E r \in {shrinkSearch(algo, padding)} :
             /\ before' = [Snapshot EXCEPT !.resets = r.resets]
             /\ algo' = r.p
             /\ ret' = r.ok
             /\ filledBy' = IF algo.usedArea = 0 \/ Len(algo.packed) = 0
                            THEN filledBy ELSE "Shrink"
  /\ UNCHANGED <<unpackedSize2Ds, sortFunc, sortRev, padding, inserted>>
  /\ UNCHANGED mainVars
  /\ UNCHANGED otherVars

\* Packer.Reset (packer.go:111-115)
Reset ==
  /\ lastOp # "Reset"
  /\ algo' = algoReset(algo, algo.maxWidth, algo.maxHeight)
  /\ unpackedSize2Ds' = <<>>
  /\ lastOp' = "Reset"
  /\ before' = Snapshot
  /\ filledBy' = "none"
  /\ UNCHANGED <<sortFunc, sortRev, padding, inserted, ret, shrunk>>
  /\ UNCHANGED mainVars
  /\ UNCHANGED otherVars

Next ==
  \/ \E width \in Dims, height \in Dims : Insert(width, height)
  \/ Pack
  \/ Shrink
  \/ Reset

Spec == Init /\ [][Next]_vars

(***************************************************************************)
(* The same Packer with sizes and bins at the cap of Shrink: a side of     *)
(* ShrinkCap / 2 makes Shrink's first upper limit reach the cap, so that a *)
(* failure of its first attempt leads to the restoring branch              *)
(* (packer.go:240-245).                                                    *)
(***************************************************************************)
Big == ShrinkCap \div 2
BigDims == {1, Big}
BigBins == {Big, Big + 1}

InitBig == InitWith(BigBins, Paddings, {FALSE}, "api")

NextBig ==
  \/ \E width \in BigDims, height \in BigDims : Insert(width, height)
  \/ Pack
  \/ Shrink
  \/ Reset

SpecBig == InitBig /\ [][NextBig]_vars

(***************************************************************************)
(* The same Packer with sizes one short of half the cap: Shrink's first    *)
(* upper limit is then below the cap, and a failure of its first attempt   *)
(* enters the doubling loop (packer.go:234-239).                           *)
(***************************************************************************)
NearDims == {1, Big - 1}

NextNear ==
  \/ \E width \in NearDims, height \in NearDims : Insert(width, height)
  \/ Pack
  \/ Shrink
  \/ Reset

SpecNear == InitBig /\ [][NextNear]_vars

(***************************************************************************)
(* The same Packer with a padding and sizes that keep a width and a height *)
(* of 1 at least when unpadRect has taken twice the padding off them.      *)
(***************************************************************************)
Unit == 2 * MaxPad + 1
PadDims == {Unit, Unit + 1}
PadBins == {Unit + MaxPad, 2 * Unit + MaxPad + 1}
PadPaddings == 1..MaxPad

InitPad == InitWith(PadBins, PadPaddings, {FALSE}, "api")

NextPad ==
  \/ \E width \in PadDims, height \in PadDims : Insert(width, height)
  \/ Pack
  \/ Shrink
  \/ Reset

SpecPad == InitPad /\ [][NextPad]_vars

(***************************************************************************)
(* The same Packer with a sorter its caller sets and queues of sizes that  *)
(* tie in area: short ones, and ones of LongQueue sizes, which             *)
(* slices.SortFunc no longer sorts by insertion.                           *)
(***************************************************************************)
SortLens == {2, 3, LongQueue}
SortSides == {1, 2}

\* the queue after Insert has been called with n sizes of width 1: a short
\* queue of any heights, a long queue of one height but for one size
SortQueues ==
  UNION {{[k \in 1..n |-> NewSize2DByID(k, 1, f[k])] :
            f \in {g \in [1..n -> SortSides] :
                     n > maxInsertion => \E m \in 1..n : \A a, b \in 1..n \ {m} : g[a] = g[b]}} :
           n \in SortLens}

InitSort ==
  /\ options \in [AtlasMaxWidth : {MaxBin}, AtlasMaxHeight : {MaxBin},
                  Algorithm : {h \in Heuristics : h.fit \in {"BestAreaFit", "none"}},
                  IsAllowRotate : {FALSE}, SpritePadding : {0}, IsAutoSize : {FALSE}]
  /\ algo = [optionsAlgo(options) EXCEPT !.idMaptoRotateCount = [id \in 1..LongQueue |-> 0]]
  /\ sortFunc = sorterOf(options.Algorithm)
  /\ sortRev = FALSE
  /\ padding = options.SpritePadding
  /\ pakers = <<>>
  /\ pc = "api"
  /\ unpackedSize2Ds \in SortQueues
  /\ inserted = unpackedSize2Ds
  /\ lastOp = "Insert"
  /\ ret = FALSE
  /\ before = [queue |-> SubSeq(unpackedSize2Ds, 1, Len(unpackedSize2Ds) - 1),
               packed |-> <<>>, maxWidth |-> algo.maxWidth,
               maxHeight |-> algo.maxHeight, handed |-> <<>>, resets |-> {}]
  /\ filledBy = "none"
  /\ shrunk = FALSE
  /\ OtherIdle

\* Packer.SetSorter (packer.go:69-72)
SetSorter(compare, reverse) ==
  /\ sortFunc' = compare
  /\ sortRev' = reverse
  /\ lastOp' = "SetSorter"
  /\ before' = Snapshot
  /\ UNCHANGED <<unpackedSize2Ds, algo, padding, inserted, ret, filledBy, shrunk>>
  /\ UNCHANGED mainVars
  /\ UNCHANGED otherVars

NextSort ==
  \/ \E compare \in {"SortArea", "nil"}, reverse \in BOOLEAN : SetSorter(compare, reverse)
  \/ Pack

SpecSort == InitSort /\ [][NextSort]_vars

(***************************************************************************)
(* main (main.go:240-257): the sizes of the images are read, packing()     *)
(* packs them into a first Packer, and while a Packer leaves sizes         *)
(* unpacked, packing() packs those into a fresh Packer.                    *)
(***************************************************************************)
\* the model holds MaxBins packers at most and begins its list anew with the
\* next; a packer that is not empty places a size at least, so a list of
\* MaxRects + 1 packers has an empty one
MaxBins == MaxRects + 1

\* packing(sizes) (main.go:161-186): [algo, unpacked] of the Packer it returns
packing(sizes) ==
  LET insert(sorted) ==
        IF Len(sorted) = 0 THEN [p |-> optionsAlgo(options), left |-> <<>>]
        ELSE algoInsert(optionsAlgo(options), options.SpritePadding, sorted)
      shrink(r) ==
        [algo |-> IF Len(r.left) = 0 /\ options.IsAutoSize
                  THEN shrinkSearch(r.p, options.SpritePadding).p
                  ELSE r.p,
         unpacked |-> r.left]
  IN With(With(sortQueue(sorterOf(options.Algorithm), FALSE, sizes), insert), shrink)

InitMain == InitWith(BinDims, Paddings, BOOLEAN, "read")

\* readImageFiles (main.go:240) yields one more size; the model numbers the
\* sizes from 1
ReadImage(width, height) ==
  /\ pc = "read"
  /\ Len(inserted) < MaxRects
  /\ inserted' = Append(inserted, NewSize2DByID(Len(inserted) + 1, width, height))
  /\ UNCHANGED <<unpackedSize2Ds, algo, sortFunc, sortRev, padding, options, pakers,
                 pc, lastOp, ret, before, filledBy, shrunk>>
  /\ UNCHANGED otherVars

\* main.go:248-252: the first Packer
FirstPacking ==
  /\ pc = "read"
  /\ \E packer \in {packing(inserted)} :
        /\ algo' = packer.algo
        /\ unpackedSize2Ds' = packer.unpacked
        /\ pakers' = <<packer.algo.packed>>
  /\ pc' = "loop"
  /\ lastOp' = "packing"
  /\ UNCHANGED <<sortFunc, sortRev, padding, options, inserted, ret, before,
                 filledBy, shrunk>>
  /\ UNCHANGED otherVars

\* main.go:252-257: one turn of the loop
LoopTurn ==
  /\ pc = "loop"
  /\ Len(unpackedSize2Ds) > 0
  /\ \E p \in {packing(unpackedSize2Ds)} :
        /\ algo' = p.algo
        /\ unpackedSize2Ds' = p.unpacked
        /\ pakers' = IF Len(pakers) < MaxBins THEN Append(pakers, p.algo.packed)
                     ELSE <<p.algo.packed>>
  /\ UNCHANGED <<sortFunc, sortRev, padding, options, pc, inserted, lastOp, ret,
                 before, filledBy, shrunk>>
  /\ UNCHANGED otherVars

\* main.go:252: the loop ends when nothing is left unpacked
LoopExit ==
  /\ pc = "loop"
  /\ Len(unpackedSize2Ds) = 0
  /\ pc' = "done"
  /\ UNCHANGED <<unpackedSize2Ds, algo, sortFunc, sortRev, padding, options, pakers,
                 inserted, lastOp, ret, before, filledBy, shrunk>>
  /\ UNCHANGED otherVars

NextMain ==
  \/ \E width \in Dims, height \in Dims : ReadImage(width, height)
  \/ FirstPacking
  \/ LoopTurn
  \/ LoopExit

\* main is one sequential program: it takes its next step when it has one
SpecMain == InitMain /\ [][NextMain]_vars /\ WF_vars(NextMain)

(***************************************************************************)
(* The Heuristic bitmask and ResolveAlgorithm (unnamed/part_002), and the  *)
(* construction of a Packer from its result (packer.go:332-352).           *)
(***************************************************************************)
\* the constants of the bitmask, by name
Heuristic ==
  [MaxRects |-> 0, Guillotine |-> 2,
   BestShortSideFit |-> 0, BestLongSideFit |-> 16, BestAreaFit |-> 32,
   BottomLeft |-> 48, ContactPoint |-> 64, WorstAreaFit |-> 80,
   WorstShortSideFit |-> 96, WorstLongSideFit |-> 112]

\* heuristic & typeMask, typeMask = 0x000F
typeBits(heuristic) == heuristic % 16

\* the value ResolveAlgorithm returns when no case matches
Sentinel == 99

\* the cases of ResolveAlgorithm: algo | variant is the sum, the fields being
\* disjoint
Combinations ==
  [pair \in ({"MaxRects"} \X {"BestShortSideFit", "BottomLeft", "ContactPoint",
                               "BestLongSideFit", "BestAreaFit"})
            \cup ({"Guillotine"} \X {"BestAreaFit", "BestShortSideFit",
                                    "BestLongSideFit", "WorstAreaFit",
                                    "WorstShortSideFit", "WorstLongSideFit"})
     |-> Heuristic[pair[1]] + Heuristic[pair[2]]]

ResolveAlgorithm(algorithm, variant) ==
  IF <<algorithm, variant>> \in DOMAIN Combinations
  THEN Combinations[<<algorithm, variant>>]
  ELSE Sentinel

\* NewPacker: whether it returns an error, and the algorithm of the Packer
NewPacker(maxWidth, maxHeight, heuristic) ==
  IF maxWidth <= 0 \/ maxHeight <= 0 THEN [err |-> TRUE, packer |-> "nil"]
  ELSE [err |-> FALSE,
        packer |-> CASE typeBits(heuristic) = Heuristic.MaxRects -> "maxRects"
                     [] typeBits(heuristic) = Heuristic.Guillotine -> "guillotinePack"
                     [] OTHER -> "algorithmBase"]

\* the Packer's and main's variables while another part of the program runs
PackerIdle ==
  /\ options = [AtlasMaxWidth |-> 1, AtlasMaxHeight |-> 1,
                Algorithm |-> [type |-> "Base", fit |-> "none", split |-> "none"],
                IsAllowRotate |-> FALSE, SpritePadding |-> 0, IsAutoSize |-> FALSE]
  /\ algo = optionsAlgo(options)
  /\ sortFunc = "nil"
  /\ sortRev = FALSE
  /\ padding = 0
  /\ pakers = <<>>
  /\ pc = "idle"
  /\ unpackedSize2Ds = <<>>
  /\ inserted = <<>>
  /\ lastOp = "none"
  /\ ret = FALSE
  /\ before = [queue |-> <<>>, packed |-> <<>>, maxWidth |-> 0, maxHeight |-> 0,
              handed |-> <<>>, resets |-> {}]
  /\ filledBy = "none"
  /\ shrunk = FALSE

AlgorithmNames == {"MaxRects", "Guillotine", "Skyline", "guillotine", ""}
VariantNames ==
  {"BestShortSideFit", "BestLongSideFit", "BestAreaFit", "BottomLeft",
   "ContactPoint", "WorstAreaFit", "WorstShortSideFit", "WorstLongSideFit",
   "MinWaste", ""}

InitResolve ==
  /\ PackerIdle
  /\ DriversIdle
  /\ sky = "idle"
  /\ ins = "idle"
  /\ resolver \in [at : {"call"}, algorithm : AlgorithmNames, variant : VariantNames,
                    maxWidth : 0..MaxBin, maxHeight : 0..MaxBin,
                    heuristic : {0}, err : {FALSE}, packer : {"none"}]

\* main.go:230: Algorithm: rectpack.ResolveAlgorithm(*algorithmPtr, *variantPtr)
Resolve ==
  /\ resolver.at = "call"
  /\ resolver' = [resolver EXCEPT
                    !.heuristic = ResolveAlgorithm(resolver.algorithm, resolver.variant),
                    !.at = "resolved"]
  /\ UNCHANGED <<packerVars, driverVars, sky, ins>>

\* main.go:169: rectpack.NewPacker(width, height, options.Algorithm)
Construct ==
  /\ resolver.at = "resolved"
  /\ LET r == NewPacker(resolver.maxWidth, resolver.maxHeight, resolver.heuristic)
     IN resolver' = [resolver EXCEPT !.err = r.err, !.packer = r.packer,
                                     !.at = "constructed"]
  /\ UNCHANGED <<packerVars, driverVars, sky, ins>>

NextResolve ==
  \/ Resolve
  \/ Construct

SpecResolve == InitResolve /\ [][NextResolve]_vars

(***************************************************************************)
(* Rasters (image.go, unpack.go).  An image is [W, H, pix]: pix maps the   *)
(* points of (0..W-1) x (0..H-1) to what the pixel shows, <<id, x, y>> for *)
(* the pixel (x, y) of the sprite file id (IDs start at 1), Clear for a    *)
(* transparent pixel.  The operators below are the library primitives the  *)
(* code calls, by their documented behaviour.                              *)
(***************************************************************************)
Clear == <<0, 0, 0>>

Points(w, h) == (0..(w - 1)) \X (0..(h - 1))

\* image.NewNRGBA(image.Rect(0, 0, w, h)), imaging.New(w, h, transparent)
NewImage(w, h) ==
  [W |-> Max(w, 0), H |-> Max(h, 0), pix |-> [pt \in Points(w, h) |-> Clear]]

\* image.Rect(x0, y0, x1, y1): the corners are swapped where needed so that
\* the rectangle is well formed
ImageRect(x0, y0, x1, y1) ==
  [MinX |-> Min(x0, x1), MinY |-> Min(y0, y1), MaxX |-> Max(x0, x1), MaxY |-> Max(y0, y1)]

Dx(r) == r.MaxX - r.MinX
Dy(r) == r.MaxY - r.MinY

\* the points of a rectangle inside an image's bounds
PointsIn(r, img) ==
  {pt \in Points(img.W, img.H) :
     /\ r.MinX <= pt[1] /\ pt[1] < r.MaxX
     /\ r.MinY <= pt[2] /\ pt[2] < r.MaxY}

\* the points draw.Draw(dst, r, src, sp, draw.Src) writes: r clipped to the
\* bounds of dst and to the bounds of src moved to r.Min - sp
DrawPoints(dst, r, src, spX, spY) ==
  {pt \in PointsIn(r, dst) :
     <<pt[1] - r.MinX + spX, pt[2] - r.MinY + spY>> \in Points(src.W, src.H)}

\* draw.Draw(dst, r, src, sp, draw.Src)
Draw(dst, r, src, spX, spY) ==
  LET pts == DrawPoints(dst, r, src, spX, spY)
  IN [dst EXCEPT !.pix = [pt \in Points(dst.W, dst.H) |->
                            IF pt \in pts
                            THEN src.pix[<<pt[1] - r.MinX + spX, pt[2] - r.MinY + spY>>]
                            ELSE dst.pix[pt]]]

\* imaging.Rotate270: 270 degrees counter-clockwise; the pixel (x, y) of the
\* result is the pixel (y, H - 1 - x) of the image
Rotate270(img) ==
  [W |-> img.H, H |-> img.W,
   pix |-> [pt \in Points(img.H, img.W) |-> img.pix[<<pt[2], img.H - 1 - pt[1]>>]]]

\* imaging.Rotate90: 90 degrees counter-clockwise; the pixel (x, y) of the
\* result is the pixel (W - 1 - y, x) of the image
Rotate90(img) ==
  [W |-> img.H, H |-> img.W,
   pix |-> [pt \in Points(img.H, img.W) |-> img.pix[<<img.W - 1 - pt[2], pt[1]>>]]]

\* imaging.Crop(img, rect): the part of img inside rect
Crop(img, rect) ==
  LET x0 == Max(rect.MinX, 0)
      y0 == Max(rect.MinY, 0)
      x1 == Min(rect.MaxX, img.W)
      y1 == Min(rect.MaxY, img.H)
  IN IF x1 <= x0 \/ y1 <= y0 THEN NewImage(0, 0)
     ELSE [W |-> x1 - x0, H |-> y1 - y0,
           pix |-> [pt \in Points(x1 - x0, y1 - y0) |-> img.pix[<<pt[1] + x0, pt[2] + y0>>]]]

\* imaging.Paste(background, img, pos): img copied onto background at pos
Paste(background, img, posX, posY) ==
  [background EXCEPT !.pix =
     [pt \in Points(background.W, background.H) |->
        IF <<pt[1] - posX, pt[2] - posY>> \in Points(img.W, img.H)
        THEN img.pix[<<pt[1] - posX, pt[2] - posY>>]
        ELSE background.pix[pt]]]

(***************************************************************************)
(* Sprites, the compositor and the unpacker (image.go, unpack.go).  A      *)
(* sprite file is [W, H, box]: an image of W x H whose pixels are opaque   *)
(* inside the rectangle box and transparent outside it.                    *)
(***************************************************************************)
\* image.Decode of the file of the ID
SpriteImage(id, file) ==
  [W |-> file.W, H |-> file.H,
   pix |-> [pt \in Points(file.W, file.H) |->
              IF /\ file.box.MinX <= pt[1] /\ pt[1] < file.box.MaxX
                 /\ file.box.MinY <= pt[2] /\ pt[2] < file.box.MaxY
              THEN <<id, pt[1], pt[2]>> ELSE Clear]]

trimTransparentArea(img) ==
  LET solid == {pt \in Points(img.W, img.H) : img.pix[pt] # Clear}
      xs == {pt[1] : pt \in solid}
      ys == {pt[2] : pt \in solid}
      least(S) == CHOOSE m \in S : \A n \in S : m <= n
      most(S) == CHOOSE m \in S : \A n \in S : m >= n
  IN IF img.W <= 0 \/ img.H <= 0 \/ solid = {}
     THEN [rect |-> ImageRect(0, 0, img.W, img.H), found |-> FALSE]
     ELSE [rect |-> ImageRect(least(xs), least(ys), most(xs) + 1, most(ys) + 1),
           found |-> TRUE]

\* what a worker of processImages stores under idx: sizes[idx] and
\* sourceRects[idx], the latter left at its zero value without trimming
processImage(idx, img, isTrimTransparent) ==
  LET origBounds == ImageRect(0, 0, img.W, img.H)
      t == trimTransparentArea(img)
  IN IF isTrimTransparent
     THEN IF t.found /\ (Dx(t.rect) < Dx(origBounds) \/ Dy(t.rect) < Dy(origBounds))
          THEN [size |-> NewSize2DByID(idx, Dx(t.rect), Dy(t.rect)), sourceRect |-> t.rect]
          ELSE [size |-> NewSize2DByID(idx, Dx(origBounds), Dy(origBounds)),
                sourceRect |-> origBounds]
     ELSE [size |-> NewSize2DByID(idx, img.W, img.H), sourceRect |-> ImageRect(0, 0, 0, 0)]

\* Packer.SourceRectMapW: for each ID the width of the size handed to the
\* packer under it
SourceRectMapW(sizes) == [id \in 1..Len(sizes) |-> sizes[id].Width]

\* what a worker of CreateAtlasImage computes for the packed rectangle r
\* before it takes the mutex: the source image, the source point, the
\* destination rectangle and the sprite's index record
spriteJob(r, img, fileRect, mapW) ==
  LET rotated == mapW[r.ID] # r.Width
      srcImage == IF rotated THEN Rotate270(img) ELSE img
      origHeight == img.H
      newMinX == origHeight - fileRect.MinY - Dy(fileRect)
      newMinY == fileRect.MinX
      newWidth == Dy(fileRect)
      newHeight == Dx(fileRect)
      sourceRect == IF rotated
                    THEN ImageRect(newMinX, newMinY, newMinX + newWidth, newMinY + newHeight)
                    ELSE fileRect
      isTrimmed == \/ sourceRect.MinX > 0 \/ sourceRect.MinY > 0
                   \/ Dx(sourceRect) < srcImage.W \/ Dy(sourceRect) < srcImage.H
  IN [srcImage |-> srcImage, spX |-> sourceRect.MinX, spY |-> sourceRect.MinY,
      sourceRect |-> sourceRect,
      dstRect |-> ImageRect(r.X, r.Y, r.X + r.Width, r.Y + r.Height),
      spriteInfo |->
        [Region |-> [X |-> r.X, Y |-> r.Y, W |-> r.Width, H |-> r.Height],
         Rotated |-> rotated,
         SourceSize |-> [W |-> srcImage.W, H |-> srcImage.H],
         Trimmed |-> isTrimmed,
         SourceRect |-> IF isTrimmed
                        THEN [X |-> sourceRect.MinX, Y |-> sourceRect.MinY,
                              W |-> Dx(sourceRect), H |-> Dy(sourceRect)]
                        ELSE [X |-> 0, Y |-> 0, W |-> 0, H |-> 0]]]

\* the image the function unpack hands to Parallel writes for one sprite
unpackSprite(atlasImg, sprite) ==
  LET cropped == Crop(atlasImg, ImageRect(sprite.Region.X, sprite.Region.Y,
                                          sprite.Region.X + sprite.Region.W,
                                          sprite.Region.Y + sprite.Region.H))
      subImg == IF sprite.Trimmed
                THEN Paste(NewImage(sprite.SourceSize.W, sprite.SourceSize.H), cropped,
                           sprite.SourceRect.X, sprite.SourceRect.Y)
                ELSE cropped
  IN IF sprite.Rotated THEN Rotate90(subImg) ELSE subImg

(***************************************************************************)
(* The parallel drivers: processImages (image.go:145-227),                 *)
(* CreateAtlasImage (image.go:287-405) and the part of unpack that hands   *)
(* its sprites to Parallel (unpack.go:17-41, 103-163).  Each goroutine is  *)
(* a process; a step is one operation on what the goroutines share (wait   *)
(* group, semaphore, error channel, mutex, results).  Whether a file       *)
(* operation fails is the environment's choice at the step.                *)
(***************************************************************************)
MaxCPU == 2

\* the sprite files of a run: opaque images, and images whose first column
\* is transparent
SpriteFiles ==
  {[W |-> w, H |-> h, box |-> ImageRect(x, 0, w, h)] :
     <<w, h, x>> \in {t \in Dims \X Dims \X {0, 1} : t[3] < t[1]}}

DriverOptions ==
  [AtlasMaxWidth : {2 * MaxDim}, AtlasMaxHeight : {2 * MaxDim},
   Algorithm : {[type |-> "Guillotine", fit |-> "BestShortSideFit",
                 split |-> "SplitShorterLeftoverAxis"]},
   IsAllowRotate : BOOLEAN, SpritePadding : {0, MaxPad + 1}, IsAutoSize : {FALSE}]

\* sizes and sourceRects as processImages returns them when no file fails
processed(fs, isTrimTransparent) ==
  LET at(idx) == processImage(idx, SpriteImage(idx, fs[idx]), isTrimTransparent)
  IN [sizes |-> [idx \in 1..Len(fs) |-> at(idx).size],
      sourceRects |-> [idx \in 1..Len(fs) |-> at(idx).sourceRect]]

\* the job of the worker of CreateAtlasImage for the packed rectangle r
jobOf(r, fs, isTrimTransparent) ==
  spriteJob(r, SpriteImage(r.ID, fs[r.ID]),
            processed(fs, isTrimTransparent).sourceRects[r.ID],
            SourceRectMapW(processed(fs, isTrimTransparent).sizes))

\* image.NewNRGBA(image.Rect(0, 0, atlasSize.Width, atlasSize.Height))
newAtlas(p, pad) == NewImage(MinSize(p.packed, pad).Width, MinSize(p.packed, pad).Height)

\* the raster and the index CreateAtlasImage returns when its workers take
\* the mutex in the order of the packed rectangles
RECURSIVE drawInOrder(_, _, _, _, _)
drawInOrder(rects, k, fs, isTrimTransparent, acc) ==
  IF k > Len(rects) THEN acc
  ELSE LET j == jobOf(rects[k], fs, isTrimTransparent)
       IN drawInOrder(rects, k + 1, fs, isTrimTransparent,
            [dstImage |-> Draw(acc.dstImage, j.dstRect, j.srcImage, j.spX, j.spY),
             spriteInfoMapping |->
               [id \in DOMAIN acc.spriteInfoMapping \cup {rects[k].ID} |->
                  IF id = rects[k].ID THEN j.spriteInfo ELSE acc.spriteInfoMapping[id]]])

atlasInOrder(p, pad, fs, isTrimTransparent) ==
  drawInOrder(p.packed, 1, fs, isTrimTransparent,
              [dstImage |-> newAtlas(p, pad), spriteInfoMapping |-> <<>>])

\* errChan := make(chan error, len(paths)), and likewise in the other drivers
errChanCapOneLess(n) == n - 1
errChanCap(n) == n

numTasks ==
  CASE job.kind = "processImages" -> Len(files)
    [] job.kind = "CreateAtlasImage" -> Len(algo.packed)
    [] job.kind = "unpack" -> Len(job.spriteList)

InitDriversWith(fileSet, optionSet, trims) ==
  /\ resolver = "idle"
  /\ sky = "idle"
  /\ ins = "idle"
  /\ files \in UNION {[1..n -> fileSet] : n \in 1..MaxRects}
  /\ options \in optionSet
  /\ \E kind \in {"processImages", "CreateAtlasImage", "unpack"}, cpus \in 1..MaxCPU,
        trim \in trims :
       \E packer \in {packing(processed(files, trim).sizes)} :
         \E atlas \in {atlasInOrder(packer.algo, options.SpritePadding, files, trim)} :
           /\ algo = packer.algo
           /\ unpackedSize2Ds = packer.unpacked
           /\ inserted = processed(files, trim).sizes
           /\ job = [kind |-> kind, cpus |-> cpus, trim |-> trim,
                     atlasImg |-> IF kind = "unpack" THEN atlas.dstImage ELSE NewImage(0, 0),
                     spriteList |->
                       IF kind = "unpack"
                       THEN [k \in 1..Len(packer.algo.packed) |->
                               [name |-> packer.algo.packed[k].ID,
                                sprite |-> atlas.spriteInfoMapping[packer.algo.packed[k].ID]]]
                       ELSE <<>>]
           /\ kind = "processImages" =>
                /\ options.SpritePadding = 0
                /\ ~options.IsAllowRotate
           /\ mem = [mu |-> 0,
                     dstImage |-> IF kind = "CreateAtlasImage"
                                  THEN newAtlas(packer.algo, options.SpritePadding)
                                  ELSE NewImage(0, 0),
                     spriteInfoMapping |-> <<>>,
                     sizes |-> [idx \in 1..Len(files) |-> NewSize2DByID(0, 0, 0)],
                     sourceRects |-> [idx \in 1..Len(files) |-> ImageRect(0, 0, 0, 0)],
                     out |-> <<>>,
                     wrote |-> [k \in 1..Len(packer.algo.packed) |-> {}],
                     ran |-> {},
                     reported |-> {}]
  /\ sortFunc = sorterOf(options.Algorithm)
  /\ sortRev = FALSE
  /\ padding = options.SpritePadding
  /\ pakers = <<>>
  /\ pc = "driver"
  /\ lastOp = "packing"
  /\ ret = FALSE
  /\ before = [queue |-> <<>>, packed |-> <<>>, maxWidth |-> 0, maxHeight |-> 0,
              handed |-> <<>>, resets |-> {}]
  /\ filledBy = "none"
  /\ shrunk = FALSE
  /\ drv = [pc |-> IF job.kind = "unpack" THEN "parallel" ELSE "loop",
            i |-> 1, batchSize |-> 0, spawned |-> 0, sem |-> 0, wg |-> 0,
            errChan |-> <<>>, closed |-> FALSE, ret |-> <<0, "none">>]
  /\ wk = [g \in 1..MaxRects |->
             [pc |-> "none", from |-> 0, to |-> 0, j |-> 0, inline |-> FALSE]]

\* ---- the driver's goroutine ----

\* image.go:167, 313: wg.Add(1)
DrvAdd ==
  /\ job.kind \in {"processImages", "CreateAtlasImage"}
  /\ drv.pc = "loop"
  /\ drv.i <= numTasks
  /\ drv' = [drv EXCEPT !.wg = @ + 1, !.pc = "acquire"]
  /\ UNCHANGED <<packerVars, resolver, sky, ins, files, job, wk, mem>>

\* image.go:168-170, 314-316: semaphore <- struct{}{} blocks while the
\* semaphore is full; then the goroutine of the task starts
DrvSpawn ==
  /\ drv.pc = "acquire"
  /\ drv.sem < job.cpus
  /\ wk' = [wk EXCEPT ![drv.i] = [pc |-> "open", from |-> drv.i, to |-> drv.i + 1,
                                   j |-> drv.i, inline |-> FALSE]]
  /\ drv' = [drv EXCEPT !.sem = @ + 1, !.i = @ + 1,
                        !.spawned = @ + 1, !.pc = "loop"]
  /\ UNCHANGED <<packerVars, resolver, sky, ins, files, job, mem>>

\* image.go:166, 312, unpack.go:31: the loop that starts the goroutines is over
DrvLoopEnd ==
  /\ drv.pc \in {"loop", "batch"}
  /\ drv.i > numTasks
  /\ drv' = [drv EXCEPT !.pc = "wait"]
  /\ UNCHANGED <<packerVars, resolver, sky, ins, files, job, wk, mem>>

\* unpack.go:18-30: Parallel runs the tasks itself when they are fewer than
\* the CPUs, else it sets the batch size
Parallel ==
  /\ drv.pc = "parallel"
  /\ IF numTasks < job.cpus
     THEN /\ wk' = [wk EXCEPT ![1] = [pc |-> IF numTasks >= 1 THEN "lock" ELSE "done",
                                      from |-> 1, to |-> numTasks + 1, j |-> 1,
                                      inline |-> TRUE]]
          /\ drv' = [drv EXCEPT !.pc = "inline"]
     ELSE /\ drv' = [drv EXCEPT !.batchSize = Max(numTasks \div job.cpus, 1),
                                !.pc = "batch"]
          /\ wk' = wk
  /\ UNCHANGED <<packerVars, resolver, sky, ins, files, job, mem>>

\* unpack.go:31-38: wg.Add(1) and the goroutine of one batch
ParallelSpawn ==
  /\ drv.pc = "batch"
  /\ drv.i <= numTasks
  /\ wk' = [wk EXCEPT ![drv.spawned + 1] =
              [pc |-> "lock", from |-> drv.i, to |-> drv.i + drv.batchSize,
               j |-> drv.i, inline |-> FALSE]]
  /\ drv' = [drv EXCEPT !.wg = @ + 1, !.i = @ + drv.batchSize, !.spawned = @ + 1]
  /\ UNCHANGED <<packerVars, resolver, sky, ins, files, job, mem>>

\* unpack.go:21-24: the loop that ran the tasks in the driver returns
ParallelInlineEnd ==
  /\ drv.pc = "inline"
  /\ wk[1].pc = "done"
  /\ drv' = [drv EXCEPT !.pc = "close"]
  /\ UNCHANGED <<packerVars, resolver, sky, ins, files, job, wk, mem>>

\* image.go:216, 394, unpack.go:40: wg.Wait() returns when the counter is 0
DrvWait ==
  /\ drv.pc = "wait"
  /\ drv.wg = 0
  /\ drv' = [drv EXCEPT !.pc = "close"]
  /\ UNCHANGED <<packerVars, resolver, sky, ins, files, job, wk, mem>>

\* image.go:217, 395, unpack.go:158: close(errChan)
DrvClose ==
  /\ drv.pc = "close"
  /\ drv' = [drv EXCEPT !.closed = TRUE, !.pc = "range"]
  /\ UNCHANGED <<packerVars, resolver, sky, ins, files, job, wk, mem>>

\* image.go:220-226, 398-404, unpack.go:159-163: the first error of the
\* closed channel is returned, nil (<<0, "nil">>) when it is empty; an error
\* is <<task, step that failed>>
DrvReturn ==
  /\ drv.pc = "range"
  /\ drv' = [drv EXCEPT !.ret = IF Len(drv.errChan) > 0 THEN Head(drv.errChan)
                                 ELSE <<0, "nil">>,
                        !.pc = "done"]
  /\ UNCHANGED <<packerVars, resolver, sky, ins, files, job, wk, mem>>

\* ---- the goroutines of the tasks ----

\* what a goroutine does once the function of its task j has returned:
\* the next task of its batch, or its deferred calls
afterTask(w) ==
  IF w.j + 1 < w.to /\ w.j + 1 <= numTasks
  THEN [w EXCEPT !.j = @ + 1, !.pc = "lock"]
  ELSE [w EXCEPT !.pc = IF w.inline THEN "done" ELSE "exit"]

\* image.go:174, 322: os.Open; unpack.go:136: os.MkdirAll; unpack.go:143:
\* os.Create.  The call fails or not, and changes nothing the goroutines share
WkFileOp(g) ==
  /\ wk[g].pc \in {"open", "mkdir", "create"}
  /\ \E ok \in BOOLEAN :
       wk' = [wk EXCEPT ![g].pc =
                CASE wk[g].pc = "open" -> IF ok THEN "decode" ELSE "sendOpen"
                  [] wk[g].pc = "mkdir" -> IF ok THEN "unlockCreate" ELSE "sendMkdir"
                  [] wk[g].pc = "create" -> IF ok THEN "encode" ELSE "sendCreate"]
  /\ UNCHANGED <<packerVars, resolver, sky, ins, files, job, drv, mem>>

\* image.go:182-210: image.Decode or image.DecodeConfig, then sizes[idx] and
\* sourceRects[idx]; image.go:328-376: image.Decode, then what the worker
\* computes from its own rectangle
WkDecode(g) ==
  /\ wk[g].pc = "decode"
  /\ \E ok \in BOOLEAN :
       IF ~ok
       THEN /\ wk' = [wk EXCEPT ![g].pc = "sendDecode"]
            /\ mem' = mem
       ELSE IF job.kind = "processImages"
       THEN /\ \E r \in {processImage(wk[g].j, SpriteImage(wk[g].j, files[wk[g].j]), job.trim)} :
                 mem' = [mem EXCEPT !.ran = @ \cup {wk[g].j}, !.sizes[wk[g].j] = r.size,
                                       !.sourceRects[wk[g].j] = r.sourceRect]
            /\ wk' = [wk EXCEPT ![g].pc = "exit"]
       ELSE /\ wk' = [wk EXCEPT ![g].pc = "lock"]
            /\ mem' = mem
  /\ UNCHANGED <<packerVars, resolver, sky, ins, files, job, drv>>

\* image.go:176, 185, 206, 324, 331, unpack.go:137, 145, 151: errChan <- err
\* blocks while the channel is full
WkSend(g) ==
  /\ wk[g].pc \in {"sendOpen", "sendDecode", "sendMkdir", "sendCreate", "sendEncode"}
  /\ Len(drv.errChan) < errChanCap(numTasks)
  /\ drv' = [drv EXCEPT !.errChan = Append(@, <<wk[g].j, wk[g].pc>>)]
  /\ \E m \in {[mem EXCEPT !.reported = @ \cup {<<wk[g].j, wk[g].pc>>}]} :
       CASE wk[g].pc \in {"sendOpen", "sendDecode"} ->
              /\ wk' = [wk EXCEPT ![g].pc = "exit"]
              /\ mem' = [m EXCEPT !.ran = @ \cup {wk[g].j}]
         [] wk[g].pc = "sendMkdir" ->
              /\ wk' = [wk EXCEPT ![g].pc = "unlockReturn"]
              /\ mem' = m
         [] OTHER ->
              /\ wk' = [wk EXCEPT ![g] = afterTask(wk[g])]
              /\ mem' = [m EXCEPT !.ran = @ \cup {wk[g].j}]
  /\ UNCHANGED <<packerVars, resolver, sky, ins, files, job>>

\* image.go:379, unpack.go:134: mu.Lock()
WkLock(g) ==
  /\ wk[g].pc = "lock"
  /\ mem.mu = 0
  /\ mem' = [mem EXCEPT !.mu = g]
  /\ wk' = [wk EXCEPT ![g].pc = IF job.kind = "unpack" THEN "mkdir" ELSE "draw"]
  /\ UNCHANGED <<packerVars, resolver, sky, ins, files, job, drv>>

\* image.go:386: draw.Draw(dstImage, dstRect, srcImage, sourceRect.Min, draw.Src)
WkDraw(g) ==
  /\ wk[g].pc = "draw"
  /\ \E j \in {jobOf(algo.packed[wk[g].j], files, job.trim)} :
       mem' = [mem EXCEPT !.dstImage = Draw(@, j.dstRect, j.srcImage, j.spX, j.spY),
                          !.wrote[wk[g].j] =
                             DrawPoints(mem.dstImage, j.dstRect, j.srcImage, j.spX, j.spY)]
  /\ wk' = [wk EXCEPT ![g].pc = "record"]
  /\ UNCHANGED <<packerVars, resolver, sky, ins, files, job, drv>>

\* image.go:387: spriteInfoMapping[path] = spriteInfo
WkRecord(g) ==
  /\ wk[g].pc = "record"
  /\ \E r \in {algo.packed[wk[g].j]} :
       mem' = [mem EXCEPT !.spriteInfoMapping =
                 [id \in DOMAIN @ \cup {r.ID} |->
                    IF id = r.ID THEN jobOf(r, files, job.trim).spriteInfo ELSE @[id]]]
  /\ wk' = [wk EXCEPT ![g].pc = "unlock"]
  /\ UNCHANGED <<packerVars, resolver, sky, ins, files, job, drv>>

\* image.go:388, unpack.go:138, 141: mu.Unlock()
WkUnlock(g) ==
  /\ wk[g].pc \in {"unlock", "unlockCreate", "unlockReturn"}
  /\ CASE wk[g].pc = "unlock" ->
            /\ wk' = [wk EXCEPT ![g].pc = "exit"]
            /\ mem' = [mem EXCEPT !.ran = @ \cup {wk[g].j}, !.mu = 0]
       [] wk[g].pc = "unlockCreate" ->
            /\ wk' = [wk EXCEPT ![g].pc = "create"]
            /\ mem' = [mem EXCEPT !.mu = 0]
       [] wk[g].pc = "unlockReturn" ->
            /\ wk' = [wk EXCEPT ![g] = afterTask(wk[g])]
            /\ mem' = [mem EXCEPT !.ran = @ \cup {wk[g].j}, !.mu = 0]
  /\ UNCHANGED <<packerVars, resolver, sky, ins, files, job, drv>>

\* unpack.go:113-129, 149-154: imaging.Encode of the image of the sprite
WkEncode(g) ==
  /\ wk[g].pc = "encode"
  /\ \E ok \in BOOLEAN :
       IF ok
       THEN /\ \E e \in {job.spriteList[wk[g].j]} :
                 mem' = [mem EXCEPT !.ran = @ \cup {wk[g].j}, !.out =
                           [name \in DOMAIN @ \cup {e.name} |->
                              IF name = e.name THEN unpackSprite(job.atlasImg, e.sprite)
                              ELSE @[name]]]
            /\ wk' = [wk EXCEPT ![g] = afterTask(wk[g])]
       ELSE /\ wk' = [wk EXCEPT ![g].pc = "sendEncode"]
            /\ mem' = mem
  /\ UNCHANGED <<packerVars, resolver, sky, ins, files, job, drv>>

\* image.go:172, 318: the deferred <-semaphore; Parallel has no semaphore
WkRelease(g) ==
  /\ wk[g].pc = "exit"
  /\ drv' = [drv EXCEPT !.sem = IF job.kind = "unpack" THEN @ ELSE @ - 1]
  /\ wk' = [wk EXCEPT ![g].pc = "wgDone"]
  /\ UNCHANGED <<packerVars, resolver, sky, ins, files, job, mem>>

\* image.go:171, 317, unpack.go:34: the deferred wg.Done()
WkDone(g) ==
  /\ wk[g].pc = "wgDone"
  /\ drv' = [drv EXCEPT !.wg = @ - 1]
  /\ wk' = [wk EXCEPT ![g].pc = "done"]
  /\ UNCHANGED <<packerVars, resolver, sky, ins, files, job, mem>>

NextDrivers ==
  \/ DrvAdd
  \/ DrvSpawn
  \/ DrvLoopEnd
  \/ Parallel
  \/ ParallelSpawn
  \/ ParallelInlineEnd
  \/ DrvWait
  \/ DrvClose
  \/ DrvReturn
  \/ \E g \in 1..MaxRects :
       \/ WkFileOp(g)
       \/ WkDecode(g)
       \/ WkSend(g)
       \/ WkLock(g)
       \/ WkDraw(g)
       \/ WkRecord(g)
       \/ WkUnlock(g)
       \/ WkEncode(g)
       \/ WkRelease(g)
       \/ WkDone(g)

InitDrivers == InitDriversWith(SpriteFiles, DriverOptions, BOOLEAN)

SpecDrivers == InitDrivers /\ [][NextDrivers]_vars

\* The drivers on opaque sprites of one pixel, without padding, rotation or
\* trimming: what the goroutines do to the wait group, the semaphore, the
\* channel and the mutex depends on the number of tasks and of CPUs and on
\* which file operations fail, not on the images.  The Go scheduler runs a
\* goroutine that can take a step.
InitRun ==
  InitDriversWith({f \in SpriteFiles : f.W = 1 /\ f.H = 1},
                  {o \in DriverOptions : o.SpritePadding = 0 /\ ~o.IsAllowRotate}, {FALSE})

SpecRun == InitRun /\ [][NextDrivers]_vars /\ WF_vars(NextDrivers)

(***************************************************************************)
(* Parallel(start, end, fn) of unpack.go:17-41 with any range and any      *)
(* number of CPUs.  job holds the arguments and runtime.NumCPU(), drv the  *)
(* caller's position, loop index, batch size and wait group, wk the        *)
(* goroutines, mem (history) how often fn has been entered and has         *)
(* returned for every index.                                               *)
(***************************************************************************)
MaxTasks == 5

ParallelCPUs == 1..(MaxCPU + 1)
ParallelStarts == {0, 2}
\* the indices fn may be seen called with
ParallelIdx == (0 - 1)..(2 + 2 * MaxTasks)

\* unpack.go:27-30
batchSizeOf(n, numGoroutines) == Max(n \div numGoroutines, 1)

\* unpack.go:35: j < to && j < end
batchGoesOnToItsEnd(j, to, end) == j < to
batchGoesOn(j, to, end) == j < to /\ j < end

InitParallel ==
  /\ PackerIdle
  /\ resolver = "idle"
  /\ sky = "idle"
  /\ ins = "idle"
  /\ files = <<>>
  /\ \E start \in ParallelStarts, n \in (0 - 1)..MaxTasks, cpus \in ParallelCPUs :
       /\ job = [kind |-> "Parallel", start |-> start, end |-> start + n, cpus |-> cpus]
       /\ drv = [pc |-> "enter", i |-> start, batchSize |-> 0, wg |-> 0]
  /\ wk = <<>>
  /\ mem = [began |-> [i \in ParallelIdx |-> 0], ended |-> [i \in ParallelIdx |-> 0]]

\* unpack.go:18-30: the choice between the sequential loop and the batches
ParallelEnter ==
  /\ drv.pc = "enter"
  /\ drv' = IF job.end - job.start < job.cpus
            THEN [drv EXCEPT !.pc = "seq"]
            ELSE [drv EXCEPT !.pc = "batch",
                             !.batchSize = batchSizeOf(job.end - job.start, job.cpus)]
  /\ UNCHANGED <<packerVars, resolver, sky, ins, files, job, wk, mem>>

\* unpack.go:21-22: fn(i) is entered
ParallelSeqCall ==
  /\ drv.pc = "seq"
  /\ drv.i < job.end
  /\ mem' = [mem EXCEPT !.began[drv.i] = @ + 1]
  /\ drv' = [drv EXCEPT !.pc = "seqFn"]
  /\ UNCHANGED <<packerVars, resolver, sky, ins, files, job, wk>>

\* unpack.go:21-22: fn(i) returns, i++
ParallelSeqBack ==
  /\ drv.pc = "seqFn"
  /\ mem' = [mem EXCEPT !.ended[drv.i] = @ + 1]
  /\ drv' = [drv EXCEPT !.pc = "seq", !.i = @ + 1]
  /\ UNCHANGED <<packerVars, resolver, sky, ins, files, job, wk>>

\* unpack.go:24: return
ParallelSeqEnd ==
  /\ drv.pc = "seq"
  /\ drv.i >= job.end
  /\ drv' = [drv EXCEPT !.pc = "returned"]
  /\ UNCHANGED <<packerVars, resolver, sky, ins, files, job, wk, mem>>

\* unpack.go:31-38: wg.Add(1), go func(from, to int) {...}(i, i+batchSize),
\* i += batchSize
ParallelGo ==
  /\ drv.pc = "batch"
  /\ drv.i < job.end
  /\ wk' = Append(wk, [pc |-> "loop", from |-> drv.i, to |-> drv.i + drv.batchSize,
                        j |-> drv.i])
  /\ drv' = [drv EXCEPT !.wg = @ + 1, !.i = @ + drv.batchSize]
  /\ UNCHANGED <<packerVars, resolver, sky, ins, files, job, mem>>

\* unpack.go:31: the loop over the batches ends
ParallelLoopEnd ==
  /\ drv.pc = "batch"
  /\ drv.i >= job.end
  /\ drv' = [drv EXCEPT !.pc = "wait"]
  /\ UNCHANGED <<packerVars, resolver, sky, ins, files, job, wk, mem>>

\* unpack.go:40: wg.Wait() returns when the counter is 0
ParallelWait ==
  /\ drv.pc = "wait"
  /\ drv.wg = 0
  /\ drv' = [drv EXCEPT !.pc = "returned"]
  /\ UNCHANGED <<packerVars, resolver, sky, ins, files, job, wk, mem>>

\* unpack.go:35-36: fn(j) is entered in the goroutine g
BatchCall(g) ==
  /\ g <= Len(wk)
  /\ wk[g].pc = "loop"
  /\ batchGoesOn(wk[g].j, wk[g].to, job.end)
  /\ mem' = [mem EXCEPT !.began[wk[g].j] = @ + 1]
  /\ wk' = [wk EXCEPT ![g].pc = "fn"]
  /\ UNCHANGED <<packerVars, resolver, sky, ins, files, job, drv>>

\* unpack.go:35-36: fn(j) returns, j++
BatchBack(g) ==
  /\ g <= Len(wk)
  /\ wk[g].pc = "fn"
  /\ mem' = [mem EXCEPT !.ended[wk[g].j] = @ + 1]
  /\ wk' = [wk EXCEPT ![g].pc = "loop", ![g].j = @ + 1]
  /\ UNCHANGED <<packerVars, resolver, sky, ins, files, job, drv>>

\* unpack.go:34-35: the loop of the goroutine ends, the deferred wg.Done()
BatchDone(g) ==
  /\ g <= Len(wk)
  /\ wk[g].pc = "loop"
  /\ ~batchGoesOn(wk[g].j, wk[g].to, job.end)
  /\ wk' = [wk EXCEPT ![g].pc = "done"]
  /\ drv' = [drv EXCEPT !.wg = @ - 1]
  /\ UNCHANGED <<packerVars, resolver, sky, ins, files, job, mem>>

NextParallel ==
  \/ ParallelEnter
  \/ ParallelSeqCall
  \/ ParallelSeqBack
  \/ ParallelSeqEnd
  \/ ParallelGo
  \/ ParallelLoopEnd
  \/ ParallelWait
  \/ \E g \in 1..MaxTasks :
       \/ BatchCall(g)
       \/ BatchBack(g)
       \/ BatchDone(g)

SpecParallel == InitParallel /\ [][NextParallel]_vars

(***************************************************************************)
(* trimTransparentArea (image.go:22-109) pixel by pixel and with any       *)
(* threshold.  An image is [kind, bounds, alpha]: kind is the Go type that *)
(* selects the branch of the type switch, alpha the 8-bit alpha of every   *)
(* point of the bounds.  files holds the image, job the threshold of the   *)
(* options and what the function returned.                                 *)
(***************************************************************************)
\* the conversion uint8(v) of an unsigned value
uint8(v) == v % 256

\* color.RGBA.RGBA and color.NRGBA.RGBA: the 16-bit alpha of an 8-bit alpha
\* a is a | a << 8
alpha16(a) == a + a * 256

\* image.go:38, 60, 83-85: the test of the pixel at (x, y)
aboveThreshold(img, x, y, alphaThreshold) ==
  IF img.kind \in {"RGBA", "NRGBA"}
  THEN img.alpha[<<x, y>>] > uint8(alphaThreshold)
  ELSE alpha16(img.alpha[<<x, y>>]) \div 256 > alphaThreshold

\* image.go:35-104: the loops over y and x, from the pixel (x, y) on; acc is
\* minX, minY, maxX, maxY and found
RECURSIVE scanBounds(_, _, _, _, _)
scanBounds(img, x, y, alphaThreshold, acc) ==
  IF y >= img.bounds.MaxY THEN acc
  ELSE IF x >= img.bounds.MaxX
  THEN scanBounds(img, img.bounds.MinX, y + 1, alphaThreshold, acc)
  ELSE scanBounds(img, x + 1, y, alphaThreshold,
         IF aboveThreshold(img, x, y, alphaThreshold)
         THEN [found |-> TRUE,
               minX |-> IF x < acc.minX THEN x ELSE acc.minX,
               minY |-> IF y < acc.minY THEN y ELSE acc.minY,
               maxX |-> IF x > acc.maxX THEN x ELSE acc.maxX,
               maxY |-> IF y > acc.maxY THEN y ELSE acc.maxY]
         ELSE acc)

\* trimTransparentArea(img) with options.TransparencyThreshold = alphaThreshold
trimTransparentAreaAt(img, alphaThreshold) ==
  LET bounds == img.bounds
      result(acc) ==
        IF ~acc.found THEN [rect |-> bounds, found |-> FALSE]
        ELSE [rect |-> ImageRect(acc.minX, acc.minY, acc.maxX + 1, acc.maxY + 1),
              found |-> TRUE]
  IN IF bounds.MinX >= bounds.MaxX \/ bounds.MinY >= bounds.MaxY
     THEN [rect |-> bounds, found |-> FALSE]
     ELSE With(scanBounds(img, bounds.MinX, bounds.MinY, alphaThreshold,
                          [found |-> FALSE, minX |-> bounds.MaxX, minY |-> bounds.MaxY,
                           maxX |-> bounds.MinX, maxY |-> bounds.MinY]),
               result)

ImageKinds == {"RGBA", "NRGBA", "other"}
Alphas == {0, 1, 255}
\* thresholds below 256 and, of those from 256 on, ones whose low byte is 0,
\* 1 and 255
Thresholds == {0, 1, 254, 255, 256, 257, 511, 65536}
TrimBounds ==
  {ImageRect(x, y, x + w, y + h) : x \in {0, 1}, y \in {0}, w \in 0..MaxDim, h \in 1..MaxDim}

TrimImages ==
  UNION {[kind : ImageKinds, bounds : {b},
          alpha : [(b.MinX..(b.MaxX - 1)) \X (b.MinY..(b.MaxY - 1)) -> Alphas]] :
           b \in TrimBounds}

InitTrim ==
  /\ PackerIdle
  /\ resolver = "idle"
  /\ sky = "idle"
  /\ ins = "idle"
  /\ drv = "idle"
  /\ wk = <<>>
  /\ mem = "idle"
  /\ files \in {<<img>> : img \in TrimImages}
  /\ job \in [pc : {"call"}, TransparencyThreshold : Thresholds,
               rect : {ImageRect(0, 0, 0, 0)}, found : {FALSE}]

\* image.go:192: trimRect, hasTrimmed := trimTransparentArea(src)
TrimTransparentArea ==
  /\ job.pc = "call"
  /\ \E r \in {trimTransparentAreaAt(files[1], job.TransparencyThreshold)} :
       job' = [job EXCEPT !.pc = "returned", !.rect = r.rect, !.found = r.found]
  /\ UNCHANGED <<packerVars, resolver, sky, ins, files, drv, wk, mem>>

NextTrim == TrimTransparentArea

SpecTrim == InitTrim /\ [][NextTrim]_vars

(***************************************************************************)
(* The skyline packer of skyline.go.  Its float64 values are whole numbers *)
(* here: on them comparefloat64 (skyline.go:400-408) is the comparison of  *)
(* integers.  A skyline is [x, y, len], the queue is the array of the      *)
(* container/heap, first element at index 1.                               *)
(***************************************************************************)
\* SkyLineHeap.Less
skyLess(a, b) == IF a.y = b.y THEN a.x < b.x ELSE a.y < b.y

\* container/heap: up, with SkyLineHeap.Swap
RECURSIVE heapUp(_, _)
heapUp(q, j) ==
  IF j <= 1 \/ ~skyLess(q[j], q[j \div 2]) THEN q
  ELSE heapUp([q EXCEPT ![j] = q[j \div 2], ![j \div 2] = q[j]], j \div 2)

\* container/heap: down, over the first n elements
RECURSIVE heapDown(_, _, _)
heapDown(q, i, n) ==
  IF 2 * i > n THEN q
  ELSE LET j == IF 2 * i + 1 <= n /\ skyLess(q[2 * i + 1], q[2 * i]) THEN 2 * i + 1
                ELSE 2 * i
       IN IF ~skyLess(q[j], q[i]) THEN q
          ELSE heapDown([q EXCEPT ![i] = q[j], ![j] = q[i]], j, n)

\* heap.Push
heapPush(q, line) == heapUp(Append(q, line), Len(q) + 1)

\* heap.Pop: the least skyline and the queue without it
heapPop(q) ==
  LET n == Len(q)
      d == heapDown([q EXCEPT ![1] = q[n], ![n] = q[1]], 1, n - 1)
  IN [skyLine |-> d[n], queue |-> SubSeq(d, 1, n - 1)]

\* heap.Remove(h, i)
heapRemove(q, i) ==
  LET n == Len(q)
      s == [q EXCEPT ![i] = q[n], ![n] = q[i]]
      d == heapDown(s, i, n - 1)
  IN IF i = n THEN SubSeq(q, 1, n - 1)
     ELSE SubSeq(IF d = s THEN heapUp(s, i) ELSE d, 1, n - 1)

\* skyline.go:189-206: the heights hl and hr of the walls beside the skyline
RECURSIVE walls(_, _, _, _)
walls(q, k, skyLine, acc) ==
  IF k > Len(q) \/ acc.count = 2 THEN acc
  ELSE walls(q, k + 1, skyLine,
             IF q[k].x + q[k].len = skyLine.x
             THEN [acc EXCEPT !.hl = q[k].y - skyLine.y, !.count = @ + 1]
             ELSE IF q[k].x = skyLine.x + skyLine.len
             THEN [acc EXCEPT !.hr = q[k].y - skyLine.y, !.count = @ + 1]
             ELSE acc)

\* a faulty score, without the branches for a rectangle as long as the
\* skyline that ends between the two walls (score 3)
scoreNoBetween(binH, w, h, skyLine, hl, hr) ==
  IF skyLine.len < w THEN -1
  ELSE IF skyLine.y + h > binH THEN -1
  ELSE IF hl >= hr
  THEN CASE w = skyLine.len /\ h = hl -> 7
         [] w = skyLine.len /\ h = hr -> 6
         [] w = skyLine.len /\ h > hl -> 5
         [] w < skyLine.len /\ h = hl -> 4
         [] w < skyLine.len /\ h = hr -> 2
         [] w = skyLine.len /\ h < hr -> 1
         [] w < skyLine.len /\ h # hl -> 0
         [] OTHER -> -2
  ELSE CASE w = skyLine.len /\ h = hr -> 7
         [] w = skyLine.len /\ h = hl -> 6
         [] w = skyLine.len /\ h > hr -> 5
         [] w < skyLine.len /\ h = hr -> 4
         [] w < skyLine.len /\ h = hl -> 2
         [] w = skyLine.len /\ h < hl -> 1
         [] w < skyLine.len /\ h # hr -> 0
         [] OTHER -> -2

\* SkyLinePacking.score; -2 stands for the panic of its last branches
score(binH, w, h, skyLine, hl, hr) ==
  IF skyLine.len < w THEN -1
  ELSE IF skyLine.y + h > binH THEN -1
  ELSE IF hl >= hr
  THEN CASE w = skyLine.len /\ h = hl -> 7
         [] w = skyLine.len /\ h = hr -> 6
         [] w = skyLine.len /\ h > hl -> 5
         [] w < skyLine.len /\ h = hl -> 4
         [] w = skyLine.len /\ h < hl /\ h > hr -> 3
         [] w < skyLine.len /\ h = hr -> 2
         [] w = skyLine.len /\ h < hr -> 1
         [] w < skyLine.len /\ h # hl -> 0
         [] OTHER -> -2
  ELSE CASE w = skyLine.len /\ h = hr -> 7
         [] w = skyLine.len /\ h = hl -> 6
         [] w = skyLine.len /\ h > hr -> 5
         [] w < skyLine.len /\ h = hr -> 4
         [] w = skyLine.len /\ h < hr /\ h > hl -> 3
         [] w < skyLine.len /\ h = hl -> 2
         [] w = skyLine.len /\ h < hl -> 1
         [] w < skyLine.len /\ h # hr -> 0
         [] OTHER -> -2

\* skyline.go:209-239: the rectangle of the greatest score, the first one
\* among equals, upright before rotated
RECURSIVE maxScoreRect(_, _, _, _, _, _)
maxScoreRect(sp, i, skyLine, hl, hr, best) ==
  IF i > Len(sp.reqPackRectList) THEN best
  ELSE IF sp.used[i] THEN maxScoreRect(sp, i + 1, skyLine, hl, hr, best)
  ELSE LET r == sp.reqPackRectList[i]
           upright == score(sp.h, r.w, r.h, skyLine, hl, hr)
           b1 == IF upright > best.maxScore
                 THEN [maxScore |-> upright, maxRectIndex |-> i, isRotate |-> FALSE]
                 ELSE best
           rotated == score(sp.h, r.h, r.w, skyLine, hl, hr)
           b2 == IF sp.isRotateEnable /\ rotated > b1.maxScore
                 THEN [maxScore |-> rotated, maxRectIndex |-> i, isRotate |-> TRUE]
                 ELSE b1
       IN maxScoreRect(sp, i + 1, skyLine, hl, hr, b2)

\* SkyLinePacking.addSkyLineInQueue
addSkyLineInQueue(q, x, y, len) ==
  IF len > 0 THEN heapPush(q, [x |-> x, y |-> y, len |-> len]) ELSE q

\* NewPackedRect
NewPackedRect(id, x, y, w, h, isRotate) ==
  [id |-> id, x |-> x, y |-> y, w |-> w, h |-> h, isRotated |-> isRotate]

\* a faulty placeRight, which puts the skyline on top of the rectangle at
\* the left end of the popped skyline and the rest of it at the right end
placeRightTopAtLeft(q, rect, skyLine, isRotate) ==
  LET packedRect ==
        IF ~isRotate
        THEN NewPackedRect(rect.id, skyLine.x + skyLine.len - rect.w, skyLine.y,
                           rect.w, rect.h, isRotate)
        ELSE NewPackedRect(rect.id, skyLine.x + skyLine.len - rect.h, skyLine.y,
                           rect.h, rect.w, isRotate)
  IN [packedRect |-> packedRect,
      queue |-> addSkyLineInQueue(
                  addSkyLineInQueue(q, skyLine.x + packedRect.w, skyLine.y,
                                    skyLine.len - packedRect.w),
                  skyLine.x, skyLine.y + packedRect.h, packedRect.w)]

\* SkyLinePacking.placeRight: the packed rectangle and the queue after it
placeRight(q, rect, skyLine, isRotate) ==
  LET packedRect ==
        IF ~isRotate
        THEN NewPackedRect(rect.id, skyLine.x + skyLine.len - rect.w, skyLine.y,
                           rect.w, rect.h, isRotate)
        ELSE NewPackedRect(rect.id, skyLine.x + skyLine.len - rect.h, skyLine.y,
                           rect.h, rect.w, isRotate)
  IN [packedRect |-> packedRect,
      queue |-> addSkyLineInQueue(
                  addSkyLineInQueue(q, skyLine.x, skyLine.y, skyLine.len - packedRect.w),
                  packedRect.x, skyLine.y + packedRect.h, packedRect.w)]

\* placeLeft without the skyline on top of the rectangle
placeLeftForgetsTop(q, rect, skyLine, isRotate) ==
  LET packedRect ==
        IF ~isRotate
        THEN NewPackedRect(rect.id, skyLine.x, skyLine.y, rect.w, rect.h, isRotate)
        ELSE NewPackedRect(rect.id, skyLine.x, skyLine.y, rect.h, rect.w, isRotate)
  IN [packedRect |-> packedRect,
      queue |-> addSkyLineInQueue(q, skyLine.x + packedRect.w, skyLine.y,
                                  skyLine.len - packedRect.w)]

\* SkyLinePacking.placeLeft
placeLeft(q, rect, skyLine, isRotate) ==
  LET packedRect ==
        IF ~isRotate
        THEN NewPackedRect(rect.id, skyLine.x, skyLine.y, rect.w, rect.h, isRotate)
        ELSE NewPackedRect(rect.id, skyLine.x, skyLine.y, rect.h, rect.w, isRotate)
  IN [packedRect |-> packedRect,
      queue |-> addSkyLineInQueue(
                  addSkyLineInQueue(q, skyLine.x, skyLine.y + packedRect.h, packedRect.w),
                  skyLine.x + packedRect.w, skyLine.y, skyLine.len - packedRect.w)]

\* a faulty combineSkylines, which puts the skyline back as it is: the
\* termination of Pack tells it from combineSkylines
combineSkylinesPutsBack(q, i, skyLine) == heapPush(q, skyLine)

\* SkyLinePacking.combineSkylines: the skyline joins the first skyline of
\* the queue that is no lower and touches it; with none it is dropped
RECURSIVE combineSkylines(_, _, _)
combineSkylines(q, i, skyLine) ==
  IF i > Len(q) THEN q
  ELSE IF skyLine.y <= q[i].y /\ skyLine.x = q[i].x + q[i].len
  THEN heapPush(heapRemove(q, i),
                [x |-> q[i].x, y |-> q[i].y, len |-> q[i].len + skyLine.len])
  ELSE IF skyLine.y <= q[i].y /\ skyLine.x + skyLine.len = q[i].x
  THEN heapPush(heapRemove(q, i),
                [x |-> skyLine.x, y |-> q[i].y, len |-> q[i].len + skyLine.len])
  ELSE combineSkylines(q, i + 1, skyLine)

\* the boxes and rectangles of a run: the sides of the scenario, and a
\* short one
SkyBins == {100}
SkySides == {10, 40, 90}

\* what the history keeps of a turn that placed or combined nothing yet
NoTurn == [kind |-> "none", skyLine |-> [x |-> 0, y |-> 0, len |-> 0],
           hl |-> 0, hr |-> 0, maxScore |-> -1, scores |-> {}]

\* NewSkyLinePacking, and the locals of Pack before its loop
InitSkyWith(bins, sideSet, most) ==
  /\ PackerIdle
  /\ resolver = "idle"
  /\ DriversIdle
  /\ ins = "idle"
  /\ \E w \in bins, h \in bins, n \in 1..most, isRotateEnable \in BOOLEAN :
       \E sides \in [1..n -> sideSet \X sideSet] :
         sky = [w |-> w, h |-> h,
                reqPackRectList |->
                  [i \in 1..n |-> [id |-> i, w |-> sides[i][1], h |-> sides[i][2]]],
                isRotateEnable |-> isRotateEnable,
                skyLineQueue |-> <<[x |-> 0, y |-> 0, len |-> w]>>,
                packedRectList |-> <<>>,
                used |-> [i \in 1..n |-> FALSE],
                totalS |-> 0,
                at |-> "loop",
                last |-> NoTurn]

InitSky == InitSkyWith(SkyBins, SkySides, MaxRects)

\* the scores a turn computes: of every rectangle not yet placed, upright,
\* and turned when rotation is enabled (skyline.go:216-237)
scoresOf(sp, skyLine, hl, hr) ==
  {[w |-> o[1], h |-> o[2], score |-> score(sp.h, o[1], o[2], skyLine, hl, hr)] :
     o \in {<<sp.reqPackRectList[i].w, sp.reqPackRectList[i].h>> :
              i \in {k \in 1..Len(sp.reqPackRectList) : ~sp.used[k]}}
         \cup {<<sp.reqPackRectList[i].h, sp.reqPackRectList[i].w>> :
                i \in {k \in 1..Len(sp.reqPackRectList) : ~sp.used[k] /\ sp.isRotateEnable}}}

\* what the history keeps of a turn t
turnOf(kind, t) ==
  [kind |-> kind, skyLine |-> t.skyLine, hl |-> t.hl, hr |-> t.hr,
   maxScore |-> t.best.maxScore, scores |-> scoresOf(sky, t.skyLine, t.hl, t.hr)]

\* skyline.go:183-239: a turn of the loop of Pack up to the choice
turn ==
  LET popped == heapPop(sky.skyLineQueue)
      w == walls(popped.queue, 1, popped.skyLine,
                 [hl |-> sky.h - popped.skyLine.y, hr |-> sky.h - popped.skyLine.y,
                  count |-> 0])
  IN [skyLine |-> popped.skyLine, queue |-> popped.queue, hl |-> w.hl, hr |-> w.hr,
      best |-> maxScoreRect(sky, 1, popped.skyLine, w.hl, w.hr,
                            [maxScore |-> -1, maxRectIndex |-> 0, isRotate |-> FALSE])]

SkyLoops ==
  /\ sky.at = "loop"
  /\ Len(sky.skyLineQueue) # 0
  /\ Len(sky.packedRectList) < Len(sky.reqPackRectList)

\* a faulty choice of the side, which takes the rule of a left wall no
\* lower than the right one for both orders of the walls
placesRightOneRule(hl, hr, maxScore) == maxScore = 2

\* skyline.go:245-265: the rectangle goes to the right end of the skyline
\* (placeRight) and else to the left end (placeLeft)
placesRight(hl, hr, maxScore) ==
  IF hl >= hr THEN maxScore = 2 ELSE maxScore \in {4, 0}

\* skyline.go:242-267: a turn that places a rectangle
PackPlace ==
  /\ SkyLoops
  /\ \E t \in {turn} :
       /\ t.best.maxScore >= 0
       /\ LET rect == sky.reqPackRectList[t.best.maxRectIndex]
              right == placesRight(t.hl, t.hr, t.best.maxScore)
              placed == IF right THEN placeRight(t.queue, rect, t.skyLine, t.best.isRotate)
                        ELSE placeLeft(t.queue, rect, t.skyLine, t.best.isRotate)
          IN sky' = [sky EXCEPT !.skyLineQueue = placed.queue,
                                !.packedRectList = Append(@, placed.packedRect),
                                !.used[t.best.maxRectIndex] = TRUE,
                                !.totalS = @ + rect.w * rect.h,
                                !.last = turnOf("place", t)]
  /\ UNCHANGED <<packerVars, resolver, driverVars, ins>>

\* skyline.go:268-270: a turn in which no rectangle fits the skyline
PackCombine ==
  /\ SkyLoops
  /\ \E t \in {turn} :
       /\ t.best.maxScore < 0
       /\ sky' = [sky EXCEPT !.skyLineQueue = combineSkylines(t.queue, 1, t.skyLine),
                             !.last = turnOf("combine", t)]
  /\ UNCHANGED <<packerVars, resolver, driverVars, ins>>

\* skyline.go:183, 272: the loop ends and Pack returns
PackReturn ==
  /\ sky.at = "loop"
  /\ ~SkyLoops
  /\ sky' = [sky EXCEPT !.at = "returned"]
  /\ UNCHANGED <<packerVars, resolver, driverVars, ins>>

NextSky ==
  \/ PackPlace
  \/ PackCombine
  \/ PackReturn

SpecSky == InitSky /\ [][NextSky]_vars

(***************************************************************************)
(* The same Pack in small bins with more rectangles, whose sides are whole *)
(* numbers up to MaxSide: walls of both orders, skylines that are combined *)
(* and skylines that are dropped all occur.                                *)
(***************************************************************************)
SkyMaxRects == 4    \* rectangles handed to SkyLinePacking
MaxSide == 3        \* width and height of such a rectangle: 1..MaxSide

InitSkySmall == InitSkyWith({MaxSide, MaxSide + 1}, 1..MaxSide, SkyMaxRects)

SpecSkySmall == InitSkySmall /\ [][NextSky]_vars

\* Pack runs on once it is called
SpecSkyFair ==
  /\ InitSkyWith({MaxSide + 1}, 1..MaxSide, SkyMaxRects - 1)
  /\ [][NextSky]_vars
  /\ WF_vars(NextSky)

(***************************************************************************)
(* guillotinePack.Insert step by step (guillotine.go:49-119): a Packer in  *)
(* online mode hands Insert the sizes of a call; each turn of the loop     *)
(* places one size or leaves the loop.                                     *)
(***************************************************************************)
MaxSizes == 3       \* sizes handed to the Guillotine between two Resets
MaxResets == 1      \* calls of Reset in a run

\* the list after the cut and before the merge pass (guillotine.go:110-111)
splitList(p, freeRect, newNode, fr) ==
  Delete(splitByHeuristic(p.splitMethod, p.freeRects, freeRect, newNode), fr)

NoCut == [freeRect |-> NewRect(0, 0, 0, 0), node |-> NewRect(0, 0, 0, 0),
          kids |-> <<>>, split |-> <<>>]

InitInsertWith(bins, fits) ==
  /\ options \in [AtlasMaxWidth : bins, AtlasMaxHeight : bins,
                  Algorithm : {h \in Heuristics : h.fit \in fits},
                  IsAllowRotate : BOOLEAN, SpritePadding : Paddings,
                  IsAutoSize : {FALSE}]
  /\ algo = [optionsAlgo(options) EXCEPT !.idMaptoRotateCount = [id \in 1..MaxSizes |-> 0]]
  /\ sortFunc = sorterOf(options.Algorithm)
  /\ sortRev = FALSE
  /\ padding = options.SpritePadding
  /\ pakers = <<>>
  /\ pc = "api"
  /\ unpackedSize2Ds = <<>>
  /\ inserted = <<>>
  /\ lastOp = "NewPacker"
  /\ ret = FALSE
  /\ before = [queue |-> <<>>, packed |-> <<>>, maxWidth |-> 0, maxHeight |-> 0,
               handed |-> <<>>, resets |-> {}]
  /\ filledBy = "none"
  /\ shrunk = FALSE
  /\ resolver = "idle"
  /\ DriversIdle
  /\ sky = "idle"
  /\ ins = [pc |-> "ready", sizes |-> <<>>, left |-> <<>>, footprints |-> <<>>,
            cut |-> NoCut, resets |-> 0]

InitInsert ==
  InitInsertWith(BinDims, {"BestAreaFit", "BestShortSideFit", "BestLongSideFit",
                           "WorstAreaFit", "WorstShortSideFit", "WorstLongSideFit"})

\* Packer.Insert, online (packer.go:42-45): the algorithm's Insert is called
\* with the sizes, each with an ID of its own
InsertCall(sizes) ==
  /\ ins.pc \in {"ready", "returned"}
  /\ ins' = [ins EXCEPT !.pc = "loop", !.sizes = sizes, !.left = <<>>]
  /\ inserted' = inserted \o sizes
  /\ lastOp' = "Insert"
  /\ UNCHANGED <<unpackedSize2Ds, algo, sortFunc, sortRev, padding, ret, before,
                 filledBy, shrunk>>
  /\ UNCHANGED <<mainVars, resolver, driverVars, sky>>

\* a turn of the loop that finds a best pair and places it (guillotine.go:53-118)
InsertPlace ==
  /\ ins.pc = "loop"
  /\ Len(ins.sizes) > 0
  /\ \E best \in {scanFreeRects(algo, padding, ins.sizes, 1, NoBest)} :
       /\ best.score # MaxInt
       /\ \E freeRect \in {algo.freeRects[best.fr]} :
          \E newNode \in {newNodeOf(freeRect, ins.sizes[best.r], best.flipped)} :
          \E split \in {splitList(algo, freeRect, newNode, best.fr)} :
             /\ algo' = place(algo, padding, ins.sizes, best)
             /\ ins' = [ins EXCEPT
                          !.sizes = Delete(@, best.r),
                          !.footprints = Append(@, newNode),
                          !.cut = [freeRect |-> freeRect, node |-> newNode,
                                   kids |-> SubSeq(split, Len(algo.freeRects), Len(split)),
                                   split |-> split]]
  /\ UNCHANGED <<unpackedSize2Ds, sortFunc, sortRev, padding, inserted, lastOp, ret,
                 before, filledBy, shrunk>>
  /\ UNCHANGED <<mainVars, resolver, driverVars, sky>>

\* the loop ends, with no size left or no best pair found, and Insert returns
\* the sizes it holds (guillotine.go:53, 90-92, 120)
InsertReturn ==
  /\ ins.pc = "loop"
  /\ \/ Len(ins.sizes) = 0
     \/ scanFreeRects(algo, padding, ins.sizes, 1, NoBest).score = MaxInt
  /\ ins' = [ins EXCEPT !.pc = "returned", !.sizes = <<>>, !.left = ins.sizes]
  /\ UNCHANGED packerVars
  /\ UNCHANGED <<resolver, driverVars, sky>>

\* Packer.Reset (packer.go:111-115) between two calls
InsertReset ==
  /\ ins.pc \in {"ready", "returned"}
  /\ ins.resets < MaxResets
  /\ algo' = guillotineReset(algo, algo.maxWidth, algo.maxHeight)
  /\ unpackedSize2Ds' = <<>>
  /\ inserted' = <<>>
  /\ lastOp' = "Reset"
  /\ ins' = [ins EXCEPT !.pc = "ready", !.left = <<>>, !.footprints = <<>>,
                        !.cut = NoCut, !.resets = @ + 1]
  /\ UNCHANGED <<sortFunc, sortRev, padding, ret, before, filledBy, shrunk>>
  /\ UNCHANGED <<mainVars, resolver, driverVars, sky>>

\* the sizes of a call: n more sizes, numbered on from those handed before
CallSizes ==
  UNION {{[k \in 1..n |-> NewSize2DByID(Len(inserted) + k, d[k][1], d[k][2])] :
            d \in [1..n -> Dims \X Dims]} : n \in 1..(MaxSizes - Len(inserted))}

NextInsert ==
  \/ \E sizes \in CallSizes : InsertCall(sizes)
  \/ InsertPlace
  \/ InsertReturn
  \/ InsertReset

SpecInsert == InitInsert /\ [][NextInsert]_vars

\* a call that has begun runs on: the loop takes its next turn or returns
\* in the largest bin, with the two BestAreaFit heuristics of the model
SpecInsertFair ==
  /\ InitInsertWith({MaxBin}, {"BestAreaFit"})
  /\ [][NextInsert]_vars
  /\ WF_vars(InsertPlace)
  /\ WF_vars(InsertReturn)

(***************************************************************************)
(* Properties                                                              *)
(***************************************************************************)

PackedIdx == 1..Len(algo.packed)

\* the size the caller inserted under the ID
insertedOf(id) == inserted[id]

RECURSIVE SumArea(_)
SumArea(rects) ==
  IF Len(rects) = 0 THEN 0 ELSE Area(rects[1]) + SumArea(Tail(rects))

\* how many elements of the sequence carry the ID
CountID(seq, id) == Cardinality({k \in 1..Len(seq) : seq[k].ID = id})

IDsOf(seq) == {seq[k].ID : k \in 1..Len(seq)}

InsideBin(rect) ==
  /\ rect.X >= 0
  /\ rect.Y >= 0
  /\ Right(rect) <= algo.maxWidth
  /\ Bottom(rect) <= algo.maxHeight

\* the size does not fit the empty bin in any orientation the packer may use
Oversized(size) ==
  /\ size.Width > algo.maxWidth \/ size.Height > algo.maxHeight
  /\ algo.allowRotate => (size.Height > algo.maxWidth \/ size.Width > algo.maxHeight)

\* C1: after Pack returned true, no two packed rectangles intersect and every
\* packed rectangle lies inside the bin
C1_PackedDisjointInsideBin ==
  (lastOp = "Pack" /\ ret) =>
     /\ \A i \in PackedIdx, j \in PackedIdx :
          i # j => ~Intersects(algo.packed[i], algo.packed[j])
     /\ \A i \in PackedIdx : InsideBin(algo.packed[i])

\* C2: in every reachable state the used area is the sum of Width * Height
\* over the packed rectangles
C2_UsedAreaIsSumOfAreas == algo.usedArea = SumArea(algo.packed)

\* C3: Pack returns true exactly when nothing is left over, the queue holds
\* the leftovers afterwards, and every queued ID is afterwards exactly once in
\* the packed list or in the queue and never in both
C3_PackPartitionsQueue ==
  lastOp = "Pack" =>
     /\ ret <=> (Len(unpackedSize2Ds) = 0)
     /\ \A k \in 1..Len(unpackedSize2Ds) :
          \E q \in 1..Len(before.queue) : unpackedSize2Ds[k] = before.queue[q]
     /\ \A q \in 1..Len(before.queue) :
          CountID(algo.packed, before.queue[q].ID)
            + CountID(unpackedSize2Ds, before.queue[q].ID) = 1
     /\ IDsOf(algo.packed) = IDsOf(before.packed)
                               \cup (IDsOf(before.queue) \ IDsOf(unpackedSize2Ds))

\* a Pack that placed a part of a queue of two and left the rest
C3_Witness ==
  /\ lastOp = "Pack"
  /\ ~ret
  /\ Len(before.queue) = 2
  /\ Len(algo.packed) = Len(before.packed) + 1
  /\ Len(unpackedSize2Ds) = 1

\* C4: a size that fits the bin in no allowed orientation is never placed:
\* after Pack it is in the queue of leftovers and not in the packed list
C4_OversizedIsLeftOver ==
  lastOp = "Pack" =>
     \A q \in 1..Len(before.queue) :
        Oversized(before.queue[q]) =>
           /\ before.queue[q].ID \notin IDsOf(algo.packed)
           /\ before.queue[q].ID \in IDsOf(unpackedSize2Ds)

\* C5: the loop over the packers terminates, and when it has, every size
\* read is packed in exactly one packer
C5_LoopTerminatesAllPacked ==
  /\ <>(pc = "done")
  /\ [](pc = "done" =>
          \A id \in 1..Len(inserted) :
             Cardinality({b \in 1..Len(pakers) : CountID(pakers[b], id) = 1}) = 1
             /\ \A b \in 1..Len(pakers) : CountID(pakers[b], id) <= 1)

\* C6: with padding p > 0, any two rectangles packed by one Pack are at least
\* p apart horizontally or at least p apart vertically
C6_PaddingGap ==
  (filledBy = "Pack" /\ padding > 0) =>
     \A i \in PackedIdx, j \in PackedIdx :
        i # j =>
          LET a == algo.packed[i]
              b == algo.packed[j]
          IN \/ b.X - Right(a) >= padding
             \/ a.X - Right(b) >= padding
             \/ b.Y - Bottom(a) >= padding
             \/ a.Y - Bottom(b) >= padding

\* one Pack of the Guillotine algorithm placed two rectangles with a padding,
\* side by side, each of a width and a height of 1 at least
C6_Witness ==
  /\ filledBy = "Pack"
  /\ lastOp = "Pack"
  /\ padding > 0
  /\ algo.type = "Guillotine"
  /\ Len(algo.packed) = 2
  /\ \A i \in PackedIdx : algo.packed[i].Width >= 1 /\ algo.packed[i].Height >= 1
  /\ algo.packed[1].Y = algo.packed[2].Y

\* C7: a rectangle Pack stored has the inserted Width and Height, swapped
\* exactly when it is marked rotated, so both are at least 1
C7_StoredSizeIsInserted ==
  filledBy \in {"Pack", "Packs"} =>
     \A i \in PackedIdx :
        LET rect == algo.packed[i]
            size == insertedOf(rect.ID)
        IN /\ rect.Width = (IF rect.IsRotated THEN size.Height ELSE size.Width)
           /\ rect.Height = (IF rect.IsRotated THEN size.Width ELSE size.Height)
           /\ rect.Width >= 1
           /\ rect.Height >= 1

\* C8: when Shrink returns true after a successful Pack, the packed list has
\* the IDs it had before, each once, and the queue is empty
C8_ShrinkKeepsIDs ==
  (lastOp = "Shrink" /\ ret) =>
     /\ IDsOf(algo.packed) = IDsOf(before.packed)
     /\ Len(algo.packed) = Len(before.packed)
     /\ \A id \in IDsOf(before.packed) : CountID(algo.packed, id) = 1
     /\ Len(unpackedSize2Ds) = 0

\* Shrink returned true and made the bin of two rectangles smaller
C8_Witness ==
  /\ lastOp = "Shrink"
  /\ ret
  /\ Len(algo.packed) = 2
  /\ algo.maxWidth * algo.maxHeight < before.maxWidth * before.maxHeight

\* C9: when Shrink returns false, the bin has its size of before and the
\* packed list the rectangles of before, with ID, position, width and height
C9_FailedShrinkRestores ==
  (lastOp = "Shrink" /\ ~ret) =>
     /\ algo.maxWidth = before.maxWidth
     /\ algo.maxHeight = before.maxHeight
     /\ Len(algo.packed) = Len(before.packed)
     /\ \A i \in 1..Len(before.packed) :
          \E j \in PackedIdx :
             /\ algo.packed[j].ID = before.packed[i].ID
             /\ algo.packed[j].X = before.packed[i].X
             /\ algo.packed[j].Y = before.packed[i].Y
             /\ algo.packed[j].Width = before.packed[i].Width
             /\ algo.packed[j].Height = before.packed[i].Height

\* C10: without padding, after Pack and after Shrink the rotation count of a
\* packed ID is odd exactly when the rectangle has Width and Height swapped
\* relative to the inserted size
C10_RotationParity ==
  (lastOp \in {"Pack", "Shrink"} /\ padding = 0) =>
     \A i \in PackedIdx :
        LET rect == algo.packed[i]
            size == insertedOf(rect.ID)
        IN size.Width # size.Height =>
             ((algo.idMaptoRotateCount[rect.ID] % 2 = 1)
                <=> (rect.Width = size.Height /\ rect.Height = size.Width))

\* C11: in every reachable state MinSize() is at most MaxSize() in width and
\* in height
C11_MinSizeWithinMaxSize ==
  /\ MinSize(algo.packed, padding).Width <= algo.maxWidth
  /\ MinSize(algo.packed, padding).Height <= algo.maxHeight

\* C12: a pair of names that is no supported combination resolves to the
\* sentinel, which no supported combination resolves to, and NewPacker called
\* with it returns an error and no Packer
C12_SentinelFailsConstruction ==
  LET unsupported == <<resolver.algorithm, resolver.variant>> \notin DOMAIN Combinations
  IN /\ (resolver.at \in {"resolved", "constructed"} /\ unsupported) =>
          /\ resolver.heuristic = Sentinel
          /\ \A pair \in DOMAIN Combinations : Combinations[pair] # Sentinel
     /\ (resolver.at = "constructed" /\ unsupported) =>
          (resolver.err /\ resolver.packer = "nil")

\* the points of the raster inside the rectangle [X, X+Width) x [Y, Y+Height)
\* of the k-th packed rectangle
Region(k) ==
  {pt \in Points(mem.dstImage.W, mem.dstImage.H) :
     /\ algo.packed[k].X <= pt[1] /\ pt[1] < Right(algo.packed[k])
     /\ algo.packed[k].Y <= pt[2] /\ pt[2] < Bottom(algo.packed[k])}

\* C13: in CreateAtlasImage the raster and the index are written only under
\* the mutex, every worker writes only points of its own packed rectangle,
\* no point of the raster is written by two workers, and a call that
\* returns without error returns the raster and the index of the run that
\* draws in list order, whatever the interleaving was.
C13_AtlasSameForEveryInterleaving ==
  job.kind = "CreateAtlasImage" =>
    /\ \A g \in 1..MaxRects : wk[g].pc \in {"draw", "record", "unlock"} => mem.mu = g
    /\ \A a \in 1..Len(algo.packed) : mem.wrote[a] \subseteq Region(a)
    /\ \A a, b \in 1..Len(algo.packed) : a # b => mem.wrote[a] \cap mem.wrote[b] = {}
    /\ (drv.pc = "done" /\ drv.ret = <<0, "nil">>) =>
         /\ mem.dstImage = atlasInOrder(algo, options.SpritePadding, files, job.trim).dstImage
         /\ mem.spriteInfoMapping =
              atlasInOrder(algo, options.SpritePadding, files, job.trim).spriteInfoMapping

\* C14: in processImages, CreateAtlasImage and unpack every run ends with
\* the driver returned; a goroutine about to send an error finds room in
\* the channel and one about to release the semaphore holds a slot of it;
\* the driver is past its wait only when every task has run and every
\* goroutine has ended; and it returns an error exactly when some goroutine
\* sent one, and then one of those sent.
C14_DriversTerminateAndReport ==
  /\ <>(drv.pc = "done")
  /\ [](\A g \in 1..MaxRects :
          /\ wk[g].pc \in {"sendOpen", "sendDecode", "sendMkdir", "sendCreate", "sendEncode"}
               => Len(drv.errChan) < errChanCap(numTasks)
          /\ (wk[g].pc = "exit" /\ job.kind # "unpack") => drv.sem > 0)
  /\ [](drv.pc \in {"close", "range", "done"} =>
          /\ mem.ran = 1..numTasks
          /\ \A g \in 1..MaxRects : wk[g].pc \in {"none", "done"})
  /\ [](drv.pc = "done" =>
          /\ drv.ret # <<0, "nil">> <=> mem.reported # {}
          /\ drv.ret # <<0, "nil">> => drv.ret \in mem.reported)

\* two goroutines of one call run at the same time, both send an error, and
\* the driver returns one of the two
C14_Witness ==
  /\ drv.pc = "done"
  /\ job.cpus >= 2
  /\ Cardinality(mem.reported) >= 2
  /\ drv.ret \in mem.reported

\* C15: unpacking the atlas that was composed from the sprite files, with
\* the index composed with it, writes for every sprite of the atlas an image
\* of the file's dimensions that shows the file's pixels inside the opaque
\* box and transparent pixels outside it.
C15_ComposeUnpackRoundTrip ==
  (job.kind = "unpack" /\ drv.pc = "done" /\ drv.ret = <<0, "nil">>) =>
    \A k \in 1..Len(algo.packed) :
      /\ algo.packed[k].ID \in DOMAIN mem.out
      /\ mem.out[algo.packed[k].ID] = SpriteImage(algo.packed[k].ID, files[algo.packed[k].ID])

\* the scenario: two rectangles of 90 x 40, a box of 100 x 100, rotation
\* allowed, and Pack has returned
TwoWideInSquare ==
  /\ sky.at = "returned"
  /\ sky.w = 100 /\ sky.h = 100
  /\ sky.isRotateEnable
  /\ sky.reqPackRectList = <<[id |-> 1, w |-> 90, h |-> 40], [id |-> 2, w |-> 90, h |-> 40]>>

\* C16 as stated: in the scenario one rectangle is packed upright at (0, 0)
\* as 90 x 40 and the other rotated at (0, 40) as 40 x 90.
C16_SecondRotated ==
  TwoWideInSquare =>
    \E a, b \in 1..Len(sky.packedRectList) :
      /\ a # b
      /\ sky.packedRectList[a] = NewPackedRect(sky.packedRectList[a].id, 0, 0, 90, 40, FALSE)
      /\ sky.packedRectList[b] = NewPackedRect(sky.packedRectList[b].id, 0, 40, 40, 90, TRUE)

\* C16 amended: in the scenario the first rectangle is packed upright at
\* (0, 0) as 90 x 40 and the second upright at (0, 40) as 90 x 40.
C16_BothUpright ==
  TwoWideInSquare =>
    sky.packedRectList = <<NewPackedRect(1, 0, 0, 90, 40, FALSE),
                           NewPackedRect(2, 0, 40, 90, 40, FALSE)>>

C16_Witness ==
  /\ TwoWideInSquare
  /\ Len(sky.packedRectList) = 2

\* the place of the size with the ID of x in the queue q, 0 when it has none
QueuePlace(q, x) ==
  IF \E k \in 1..Len(q) : q[k].ID = x.ID
  THEN CHOOSE k \in 1..Len(q) : q[k].ID = x.ID ELSE 0

\* C17: when Pack has sorted a queue with the configured comparator, the
\* order it handed the sizes to the algorithm in holds the sizes of the queue,
\* no size comes before one the comparator puts before it (descending area,
\* ascending when the reverse flag is set), and sizes of equal area come in
\* the order they had in the queue, the order of their insertion
C17_HandedInComparatorOrderTiesStable ==
  (lastOp = "Pack" /\ before.queue # <<>> /\ sortFunc # "nil") =>
     LET q == before.queue
         h == before.handed
     IN /\ Len(h) = Len(q)
        /\ \A k \in 1..Len(q) : \E m \in 1..Len(h) : h[m] = q[k]
        /\ \A i, j \in 1..Len(h) :
             i < j => /\ IF sortRev THEN Area(h[i]) <= Area(h[j])
                                    ELSE Area(h[i]) >= Area(h[j])
                      /\ Area(h[i]) = Area(h[j])
                           => QueuePlace(q, h[i]) < QueuePlace(q, h[j])

\* the same for the queues slices.SortFunc sorts by insertion
C17_ShortQueuesTiesStable ==
  Len(before.queue) <= maxInsertion => C17_HandedInComparatorOrderTiesStable

\* the order alone, ties aside, for every queue
C17_HandedInComparatorOrder ==
  (lastOp = "Pack" /\ before.queue # <<>> /\ sortFunc # "nil") =>
     \A i, j \in 1..Len(before.handed) :
        i < j => IF sortRev THEN Area(before.handed[i]) <= Area(before.handed[j])
                            ELSE Area(before.handed[i]) >= Area(before.handed[j])

\* the rectangle inner lies inside the rectangle outer
Within(inner, outer) ==
  /\ outer.X <= inner.X /\ Right(inner) <= Right(outer)
  /\ outer.Y <= inner.Y /\ Bottom(inner) <= Bottom(outer)

\* no two rectangles of the list overlap
Disjoint(rects) ==
  \A i, j \in 1..Len(rects) : i < j => ~Intersects(rects[i], rects[j])

\* C18: after Reset and after every placement of Insert, every free
\* rectangle of the Guillotine has a positive width and height and lies
\* inside the bin, no two free rectangles overlap, no free rectangle overlaps
\* a placed footprint (the placed size at the corner of its free rectangle),
\* the free areas and the footprint areas add up to the area of the bin, and
\* the last cut left the footprint and at most two children, which lie inside
\* the chosen free rectangle, do not overlap and have its area together
C18_FreeListInvariant ==
  ins.pc \in {"ready", "loop", "returned"} =>
     LET bin == NewRect(0, 0, algo.maxWidth, algo.maxHeight)
         free == algo.freeRects
         cut == ins.cut
         parts == <<cut.node>> \o cut.kids
     IN /\ \A k \in 1..Len(free) :
             /\ free[k].Width > 0 /\ free[k].Height > 0
             /\ Within(free[k], bin)
             /\ \A f \in 1..Len(ins.footprints) : ~Intersects(free[k], ins.footprints[f])
        /\ Disjoint(free)
        /\ SumArea(free) + SumArea(ins.footprints) = algo.maxWidth * algo.maxHeight
        /\ Len(cut.kids) <= 2
        /\ \A k \in 1..Len(parts) : Within(parts[k], cut.freeRect)
        /\ Disjoint(parts)
        /\ SumArea(parts) = Area(cut.freeRect)

\* a second placement has cut a child of the first cut, with a padding
C18_Witness ==
  /\ ins.pc = "loop"
  /\ Len(ins.footprints) = 2
  /\ Len(ins.cut.kids) = 2
  /\ ins.cut.freeRect.X + ins.cut.freeRect.Y > 0
  /\ padding > 0

\* two rectangles with a whole edge in common: the same X and Width, one on
\* top of the other, or the same Y and Height, one beside the other
ShareEdge(a, b) ==
  \/ /\ a.X = b.X /\ a.Width = b.Width
     /\ (Bottom(a) = b.Y \/ Bottom(b) = a.Y)
  \/ /\ a.Y = b.Y /\ a.Height = b.Height
     /\ (Right(a) = b.X \/ Right(b) = a.X)

\* C19: after a placement with the merge pass on, whenever two free
\* rectangles i < j of the list the pass was given share a whole edge, the
\* free list holds one rectangle that covers both, and the free area is the
\* area of the list the pass was given
C19_MergeCoalesces ==
  algo.Merge =>
     LET given == ins.cut.split
         free == algo.freeRects
     IN \A i, j \in 1..Len(given) :
          (i < j /\ ShareEdge(given[i], given[j])) =>
             /\ \E k \in 1..Len(free) : Within(given[i], free[k]) /\ Within(given[j], free[k])
             /\ SumArea(free) = SumArea(given)

\* the size, grown by the padding, fits the free rectangle as it is, or
\* turned when the packer may rotate
Fits(size, freeRect) ==
  LET padded == padSize(size, padding)
  IN \/ padded.Width <= freeRect.Width /\ padded.Height <= freeRect.Height
     \/ /\ algo.allowRotate
        /\ padded.Height <= freeRect.Width /\ padded.Width <= freeRect.Height

\* Insert has returned sizes, and no free rectangle takes any of them
NothingFits ==
  (ins.pc = "returned" /\ Len(ins.left) > 0) =>
     \A k \in 1..Len(ins.left), f \in 1..Len(algo.freeRects) :
        ~Fits(ins.left[k], algo.freeRects[f])

\* C20: whenever the Guillotine's Insert returns sizes, none of them, grown
\* by the padding, fits a free rectangle of the free list, turned or not
\* when rotation is allowed; and every call of Insert returns
C20_GivesUpOnlyWhenNothingFits ==
  /\ []NothingFits
  /\ (ins.pc = "loop") ~> (ins.pc = "returned")

\* Insert has returned a size with free rectangles left in the list, after
\* it placed another, with a padding and rotation allowed
C20_Witness ==
  /\ ins.pc = "returned"
  /\ Len(ins.left) > 0
  /\ Len(algo.freeRects) > 0
  /\ Len(ins.footprints) > 0
  /\ padding > 0
  /\ algo.allowRotate

SkyAllPlaced == Len(sky.packedRectList) = Len(sky.reqPackRectList)

\* C21: Pack of SkyLinePacking returns; every turn of its loop either
\* places one rectangle that was not placed or leaves the heap with fewer
\* skylines than it had; and the loop ends exactly when the heap is empty or
\* every rectangle is placed
C21_PackTerminates ==
  /\ <>(sky.at = "returned")
  /\ [][(sky.at = "loop" /\ sky'.at = "loop") =>
          \/ /\ Len(sky'.packedRectList) = Len(sky.packedRectList) + 1
             /\ \E i \in 1..Len(sky.used) :
                  /\ ~sky.used[i] /\ sky'.used[i]
                  /\ \A k \in 1..Len(sky.used) : k # i => sky'.used[k] = sky.used[k]
          \/ /\ sky'.packedRectList = sky.packedRectList
             /\ Len(sky'.skyLineQueue) < Len(sky.skyLineQueue)]_vars
  /\ [][(sky.at = "loop" /\ sky'.at = "returned") =>
          (Len(sky.skyLineQueue) = 0 \/ SkyAllPlaced)]_vars
  /\ [][(sky.at = "loop" /\ (Len(sky.skyLineQueue) = 0 \/ SkyAllPlaced)) =>
          sky'.at = "returned"]_vars

\* Pack has returned with a rectangle placed and another not, its heap
\* empty after a turn that combined or dropped a skyline
C21_Witness ==
  /\ sky.at = "returned"
  /\ sky.last.kind = "combine"
  /\ Len(sky.skyLineQueue) = 0
  /\ Len(sky.packedRectList) > 0
  /\ ~SkyAllPlaced

PlacedLeft ==
  sky.packedRectList[Len(sky.packedRectList)].x = sky.last.skyLine.x

\* the rectangle the last turn placed ends where the skyline it popped ends
PlacedRight ==
  LET p == sky.packedRectList[Len(sky.packedRectList)]
  IN p.x + p.w = sky.last.skyLine.x + sky.last.skyLine.len

\* C23 as stated: the rectangle is placed at the left end of the popped
\* skyline when hl >= hr unless its score is 2 (then at the right end), and
\* when hl < hr at the right end unless its score is 4 or 0 (then at the
\* left end)
C23_SideAsStated ==
  sky.last.kind = "place" =>
     IF sky.last.hl >= sky.last.hr
     THEN IF sky.last.maxScore = 2 THEN PlacedRight ELSE PlacedLeft
     ELSE IF sky.last.maxScore \in {4, 0} THEN PlacedLeft ELSE PlacedRight

\* C23 amended: the rectangle is placed at the left end of the popped
\* skyline when hl >= hr unless its score is 2 (then at the right end), and
\* when hl < hr at the left end unless its score is 4 or 0 (then at the
\* right end)
C23_SideByWalls ==
  sky.last.kind = "place" =>
     IF sky.last.hl >= sky.last.hr
     THEN IF sky.last.maxScore = 2 THEN PlacedRight ELSE PlacedLeft
     ELSE IF sky.last.maxScore \in {4, 0} THEN PlacedRight ELSE PlacedLeft

\* a rectangle shorter than the skyline and as high as the higher right
\* wall (score 4) has been placed at the right end only
C23_Witness ==
  /\ sky.last.kind = "place"
  /\ sky.last.hl < sky.last.hr
  /\ sky.last.maxScore = 4
  /\ PlacedRight
  /\ ~PlacedLeft

\* two packed rectangles of the skyline packer share a point of their insides
SkyOverlap(a, b) ==
  /\ a.x < b.x + b.w /\ b.x < a.x + a.w
  /\ a.y < b.y + b.h /\ b.y < a.y + a.h

C25_SearchResets == {r \in before.resets : r.at # "restore"}

\* C25: every side Shrink resets the algorithm to, in its first attempt, its
\* doubling loop, its binary search and its descents, is at most 10,000
C25_ResetsWithinCap ==
  lastOp = "Shrink" =>
    \A r \in C25_SearchResets : r.width <= ShrinkCap /\ r.height <= ShrinkCap

(***************************************************************************)
(* C26  Shrink and the size of the bin                                     *)
(***************************************************************************)
\* C26: when Shrink returns true, MaxSize() is at most as wide and at most as
\* high as the bin was before Shrink
C26_ShrinkNeverEnlarges ==
  (lastOp = "Shrink" /\ ret) =>
    /\ algo.maxWidth <= before.maxWidth
    /\ algo.maxHeight <= before.maxHeight

(***************************************************************************)
(* C27  Calls that follow one another without a Reset                      *)
(***************************************************************************)
\* the rectangles the last Pack added to the ones packed before it
C27_Added == {k \in PackedIdx : k > Len(before.packed)}

\* C27: after Pack has been called more than once since the last Reset, with
\* or without an Insert in between, the packed rectangles are pairwise
\* disjoint and inside the bin, and none the last call added intersects one
\* an earlier call placed
C27_CallsKeepApart ==
  (lastOp = "Pack" /\ filledBy = "Packs") =>
     /\ \A i \in PackedIdx, j \in PackedIdx :
          i # j => ~Intersects(algo.packed[i], algo.packed[j])
     /\ \A i \in PackedIdx : InsideBin(algo.packed[i])
     /\ \A i \in C27_Added, j \in 1..Len(before.packed) :
          ~Intersects(algo.packed[i], before.packed[j])

(***************************************************************************)
(* C28  Parallel calls fn once for every index of the range                *)
(***************************************************************************)
ParallelRange == {i \in ParallelIdx : job.start <= i /\ i < job.end}

\* C28: Parallel never enters fn for an index outside start <= i < end nor
\* twice for one inside, and when it has returned fn has been entered and has
\* returned exactly once for every index of the range, whatever the length
\* of the range and the number of CPUs
C28_ParallelCallsEachOnce ==
  /\ \A i \in ParallelIdx : mem.began[i] <= (IF i \in ParallelRange THEN 1 ELSE 0)
  /\ drv.pc = "returned" =>
       \A i \in ParallelIdx :
         /\ mem.began[i] = (IF i \in ParallelRange THEN 1 ELSE 0)
         /\ mem.ended[i] = mem.began[i]

\* Parallel has returned from a range that is longer than the number of CPUs
\* and not a multiple of the batch size, whose last goroutine had a shorter
\* batch
C28_Witness ==
  /\ drv.pc = "returned"
  /\ job.end - job.start > job.cpus
  /\ (job.end - job.start) % job.cpus # 0
  /\ Len(wk) > job.cpus
  /\ wk[Len(wk)].to > job.end

(***************************************************************************)
(* C29  trimTransparentArea and the threshold                              *)
(***************************************************************************)
\* the points of the image whose 8-bit alpha is greater than the threshold
C29_Above ==
  {pt \in DOMAIN files[1].alpha : files[1].alpha[pt] > job.TransparencyThreshold}

\* the tight bounding box of those points, or the bounds when there is none
C29_Box ==
  IF C29_Above = {} THEN [rect |-> files[1].bounds, found |-> FALSE]
  ELSE [rect |-> [MinX |-> CHOOSE m \in {pt[1] : pt \in C29_Above} :
                             \A pt \in C29_Above : m <= pt[1],
                  MinY |-> CHOOSE m \in {pt[2] : pt \in C29_Above} :
                             \A pt \in C29_Above : m <= pt[2],
                  MaxX |-> 1 + CHOOSE m \in {pt[1] : pt \in C29_Above} :
                                 \A pt \in C29_Above : m >= pt[1],
                  MaxY |-> 1 + CHOOSE m \in {pt[2] : pt \in C29_Above} :
                                 \A pt \in C29_Above : m >= pt[2]],
        found |-> TRUE]

\* C29: for every image and every 32-bit threshold trimTransparentArea
\* returns the tight bounding box of the pixels whose 8-bit alpha is greater
\* than the threshold, or the bounds and false when there is none, and it
\* returns the same for the image as an RGBA, an NRGBA or any other image
C29_TightBoxOnEveryPath ==
  job.pc = "returned" =>
    /\ [rect |-> job.rect, found |-> job.found] = C29_Box
    /\ \A k \in ImageKinds :
         trimTransparentAreaAt([files[1] EXCEPT !.kind = k], job.TransparencyThreshold)
           = [rect |-> job.rect, found |-> job.found]

(***************************************************************************)
(* C30  The source rectangle of a rotated sprite                           *)
(***************************************************************************)
RectPoints(r) == (r.MinX..(r.MaxX - 1)) \X (r.MinY..(r.MaxY - 1))

\* where imaging.Rotate270 puts the point pt of an image of height h
Rotated270(pt, h) == <<h - 1 - pt[2], pt[1]>>

\* the packed rectangles CreateAtlasImage has drawn turned
C30_DrawnRotated ==
  {k \in 1..Len(algo.packed) :
     /\ algo.packed[k].ID \in DOMAIN mem.spriteInfoMapping
     /\ mem.spriteInfoMapping[algo.packed[k].ID].Rotated}

\* the region of the file of the ID the atlas is to show: the rectangle
\* trimming found, the whole image without trimming
C30_Region(id) ==
  IF job.trim THEN processed(files, job.trim).sourceRects[id]
  ELSE ImageRect(0, 0, files[id].W, files[id].H)

\* the points of the turned source image the draw of the task k read
C30_Blitted(k) ==
  LET j == jobOf(algo.packed[k], files, job.trim)
  IN {<<pt[1] - j.dstRect.MinX + j.spX, pt[2] - j.dstRect.MinY + j.spY>> :
        pt \in mem.wrote[k]}

\* C30: for a sprite composed turned the source rectangle is moved to
\* (origHeight - trim.y - trim.h, trim.x) with size (trim.h, trim.w), which is
\* where Rotate270 puts the trim rectangle and lies inside the turned image,
\* and the draw reads exactly the points Rotate270 puts the sprite's region at
C30_TurnedRectIsTurnedRegion ==
  job.kind = "CreateAtlasImage" =>
    \A k \in C30_DrawnRotated :
      LET id == algo.packed[k].ID
          j == jobOf(algo.packed[k], files, job.trim)
          trim == processed(files, job.trim).sourceRects[id]
      IN /\ j.sourceRect = [MinX |-> files[id].H - trim.MinY - Dy(trim), MinY |-> trim.MinX,
                             MaxX |-> files[id].H - trim.MinY, MaxY |-> trim.MinX + Dx(trim)]
         /\ RectPoints(j.sourceRect) = {Rotated270(pt, files[id].H) : pt \in RectPoints(trim)}
         /\ RectPoints(j.sourceRect) \subseteq Points(j.srcImage.W, j.srcImage.H)
         /\ C30_Blitted(k) = {Rotated270(pt, files[id].H) : pt \in RectPoints(C30_Region(id))}

====
